---- MODULE Spec2Model ----
(***************************************************************************)
(* Model of the economy simulator: the Simulation aggregate and its        *)
(* lifecycle, the command handler that drives a run through the shared     *)
(* in-memory repository, the DSGE simulation engine's result record, the   *)
(* determinacy classification of the gensys solver, the scripts that build *)
(* and check the linear system (build_linear_system, run_determinacy_irf,  *)
(* steady_state_contract, load_parameters, compute_irfs), the fiscal       *)
(* solver and engine, the request-ID middleware of the HTTP application,   *)
(* and the rate limiter of the policy router.  Each part has its own       *)
(* specification; the other parts stay idle in it.                         *)
(***************************************************************************)
EXTENDS Integers, Sequences, FiniteSets, TLC

VARIABLES
    now,        \* datetime.utcnow(), in clock ticks
    sim,        \* one Simulation aggregate driven by arbitrary calls
    lastCall,   \* the last call made on sim and whether it raised
    sims,       \* heap of Simulation objects built by the handler, by id
    storage,    \* InMemorySimulationRepository._storage: id -> reference into sims
    pc,         \* position of each handle_run_simulation coroutine
    command,    \* the RunSimulationCommand each coroutine was given
    system,     \* the linear system (g0, g1, pi) handed to gensys
    solution,   \* what the gensys call gave: nothing yet, or eu or an exception
    detIrf,     \* what a run of the run_determinacy_irf script left behind
    build,      \* one run of the build_linear_system script: inputs, locals, files
    paramLoad,  \* one call of load_parameters: files read so far and the merge
    contract,   \* one run of the steady_state_contract script
    irf,        \* one call of compute_irfs: arguments, locals, position
    fiscal,     \* the fiscal engine: parameters, the locals of simulate, results
    api,        \* one HTTP request on its way through the application
    jacobian,   \* one linearization of residual functions: inputs, matrices
    limiter     \* InMemoryRateLimiter: its fields and the calls of allow in flight

aggVars == <<sim, lastCall>>
handlerVars == <<sims, storage, pc, command>>
solverVars == <<system, solution>>
otherVars == <<api, jacobian, limiter>>
toolVars == <<detIrf, build, paramLoad, contract, irf, fiscal, otherVars>>
vars == <<now, sim, lastCall, sims, storage, pc, command, system, solution,
          detIrf, build, paramLoad, contract, irf, fiscal, api, jacobian, limiter>>

(* The variables each part of the model leaves alone *)
aggRest == <<handlerVars, solverVars, toolVars>>
handlerRest == <<aggVars, solverVars, toolVars>>
solverRest == <<now, aggVars, handlerVars, toolVars>>
backendVars == <<now, aggVars, handlerVars>>

----------------------------------------------------------------------------
(* Bounds of the model *)

MaxClock == 2
MaxRuns == 2
MaxN == 2       \* largest dimension n of a linear system
MaxK == 2       \* largest number of columns of pi

----------------------------------------------------------------------------
(* Optional[T]: None is the empty set, a present value x is {x} *)

None == {}
Some(x) == {x}
IsSet(o) == o # {}
Get(o) == CHOOSE x \in o : TRUE

----------------------------------------------------------------------------
(* SimulationStatus *)

PENDING == "pending"
RUNNING == "running"
COMPLETED == "completed"
FAILED == "failed"
SimulationStatus == {PENDING, RUNNING, COMPLETED, FAILED}

----------------------------------------------------------------------------
(* Policy texts.  interpret_policy_to_shock only tests which keywords occur *)
(* in the lower-cased text, and the title only depends on the text and its *)
(* length, so a text is its name, the keywords it contains and its length. *)

PolicyTexts ==
    { [text |-> "Remove the second pension pillar", words |-> {"remov", "pension", "pillar"}, len |-> 32],
      [text |-> "Increase health spending and cut red tape (long form)",
       words |-> {"increas", "health", "cut"}, len |-> 75],
      [text |-> "", words |-> {}, len |-> 0] }

FiscalShock(tr, gc, gi, tc, ty) ==
    [delta_transfers |-> tr, delta_gov_consumption |-> gc, delta_gov_investment |-> gi,
     delta_tau_c |-> tc, delta_tau_y |-> ty, delta_tau_w_e |-> 0, delta_tau_w_w |-> 0]

interpret_policy_to_shock(policy_text) ==
    LET in(k) == k \in policy_text.words IN
    IF in("pension") /\ in("pillar") THEN
        IF in("remov") \/ in("cut") \/ in("elimin") THEN FiscalShock(-200, 0, 0, 0, 0)
        ELSE IF in("increas") \/ in("expand") THEN FiscalShock(200, 0, 0, 0, 0)
        ELSE FiscalShock(0, 0, 0, 0, 0)
    ELSE IF in("transfer") THEN
        IF in("increas") THEN FiscalShock(100, 0, 0, 0, 0)
        ELSE IF in("cut") \/ in("reduc") THEN FiscalShock(-100, 0, 0, 0, 0)
        ELSE FiscalShock(0, 0, 0, 0, 0)
    ELSE IF in("health") THEN
        IF in("increas") THEN FiscalShock(0, 100, 0, 0, 0)
        ELSE IF in("cut") THEN FiscalShock(0, -100, 0, 0, 0)
        ELSE FiscalShock(0, 0, 0, 0, 0)
    ELSE IF in("defence") \/ in("defense") THEN
        IF in("increas") THEN FiscalShock(0, 50, 0, 0, 0)
        ELSE IF in("cut") THEN FiscalShock(0, -50, 0, 0, 0)
        ELSE FiscalShock(0, 0, 0, 0, 0)
    ELSE IF in("education") THEN
        IF in("increas") THEN FiscalShock(0, 80, 0, 0, 0)
        ELSE IF in("cut") THEN FiscalShock(0, -80, 0, 0, 0)
        ELSE FiscalShock(0, 0, 0, 0, 0)
    ELSE IF in("infrastructure") \/ in("investment") THEN
        IF in("increas") THEN FiscalShock(0, 0, 150, 0, 0)
        ELSE IF in("cut") THEN FiscalShock(0, 0, -150, 0, 0)
        ELSE FiscalShock(0, 0, 0, 0, 0)
    ELSE IF in("tax") THEN
        IF (in("vat") \/ in("consumption")) /\ in("tax") THEN
            IF in("increas") \/ in("rais") THEN FiscalShock(0, 0, 0, 1, 0)
            ELSE IF in("cut") \/ in("reduc") THEN FiscalShock(0, 0, 0, -1, 0)
            ELSE FiscalShock(0, 0, 0, 0, 0)
        ELSE IF in("income") /\ in("tax") THEN
            IF in("increas") \/ in("rais") THEN FiscalShock(0, 0, 0, 0, 1)
            ELSE IF in("cut") \/ in("reduc") THEN FiscalShock(0, 0, 0, 0, -1)
            ELSE FiscalShock(0, 0, 0, 0, 0)
        ELSE FiscalShock(0, 0, 0, 0, 0)
    ELSE FiscalShock(0, 0, 0, 0, 0)

Abs(x) == IF x < 0 THEN -x ELSE x

(* _describe_policy_changes: one entry <<direction, subject, |amount|>> per *)
(* non-zero component, in the order the code appends them.                 *)
describe_policy_changes(shock) ==
    LET item(v, up, down, what) ==
            IF v # 0 THEN << <<IF v > 0 THEN up ELSE down, what, Abs(v)>> >> ELSE << >>
        changes ==
            item(shock.delta_transfers, "Increase", "Reduction", "government transfers")
            \o item(shock.delta_gov_consumption, "Increase", "Reduction", "government consumption")
            \o item(shock.delta_gov_investment, "Increase", "Reduction", "public investment")
            \o item(shock.delta_tau_c, "increase", "reduction", "Consumption tax")
            \o item(shock.delta_tau_y, "increase", "reduction", "Labor income tax")
    IN IF changes = << >>
       THEN << <<"No significant fiscal policy change detected", "", 0>> >>
       ELSE changes

TitleMax == 60

(* title = policy_text[:60] + "..." if len(policy_text) > 60 else policy_text *)
Title(policy_text) ==
    [of |-> policy_text.text,
     chars |-> IF policy_text.len > TitleMax THEN TitleMax ELSE policy_text.len,
     ellipsis |-> policy_text.len > TitleMax]

(* Mutant: the version string without the solver-path suffix *)
ModelVersion_NoSuffix == <<"1", ".", "0", ".", "0">>

(* The literal "1.0.0-simplified", character by character *)
ModelVersion ==
    <<"1", ".", "0", ".", "0", "-", "s", "i", "m", "p", "l", "i", "f", "i", "e", "d">>

(* DSGESimulationEngine.simulate: the reduced-form solver is the only path *)
simulate(policy_text, t) ==
    LET shock == interpret_policy_to_shock(policy_text) IN
    [scenario_id |-> t,
     title |-> Title(policy_text),
     policy_changes |-> describe_policy_changes(shock),
     model_name |-> "Latvia Fiscal DSGE Model",
     model_version |-> ModelVersion,
     confidence |-> "medium"]

SimulationResults == { simulate(p, t) : p \in PolicyTexts, t \in 0..MaxClock }

----------------------------------------------------------------------------
(* The Simulation aggregate *)

(* Simulation(parameters=...) with the dataclass defaults *)
NewSimulation(id, parameters, t) ==
    [id |-> id,
     parameters |-> parameters,
     status |-> PENDING,
     results |-> None,
     created_at |-> t,
     started_at |-> None,
     completed_at |-> None,
     error_message |-> None]

(* A call returns the object after the call and the exception it raised *)
Returned(s) == [sim |-> s, raised |-> None]
Raised(s, exc) == [sim |-> s, raised |-> Some(exc)]

(* Mutants of the aggregate's methods (plausible slips in the guards) *)
start_NoGuard(s, t) ==
    Returned([s EXCEPT !.status = RUNNING, !.started_at = Some(t)])

start_StampFirst(s, t) ==
    IF s.status # PENDING
    THEN Raised([s EXCEPT !.started_at = Some(t)], "ValueError")
    ELSE Returned([s EXCEPT !.status = RUNNING, !.started_at = Some(t)])

complete_NoGuard(s, results, t) ==
    Returned([s EXCEPT !.status = COMPLETED,
                       !.results = Some(results),
                       !.completed_at = Some(t)])

fail_NoGuard(s, error_message, t) ==
    Returned([s EXCEPT !.status = FAILED,
                       !.error_message = Some(error_message),
                       !.completed_at = Some(t)])

fail_NoStamp(s, error_message, t) ==
    IF s.status \notin {PENDING, RUNNING}
    THEN Raised(s, "ValueError")
    ELSE Returned([s EXCEPT !.status = FAILED,
                            !.error_message = Some(error_message)])

start(s, t) ==
    IF s.status # PENDING
    THEN Raised(s, "ValueError")
    ELSE Returned([s EXCEPT !.status = RUNNING, !.started_at = Some(t)])

complete(s, results, t) ==
    IF s.status # RUNNING
    THEN Raised(s, "ValueError")
    ELSE Returned([s EXCEPT !.status = COMPLETED,
                            !.results = Some(results),
                            !.completed_at = Some(t)])

fail(s, error_message, t) ==
    IF s.status \notin {PENDING, RUNNING}
    THEN Raised(s, "ValueError")
    ELSE Returned([s EXCEPT !.status = FAILED,
                            !.error_message = Some(error_message),
                            !.completed_at = Some(t)])

is_finished(s) == s.status \in {COMPLETED, FAILED}

ErrorMessages == {"", "Timeout", "engine error"}

----------------------------------------------------------------------------
(* Specification Spec: arbitrary start/complete/fail calls on one run *)

IdleSolver ==
    /\ system = << >>
    /\ solution = {}

IdleDetIrf == detIrf = {}

IdleBuild == build = << >>

IdleParamLoad == paramLoad = << >>

IdleContract == contract = << >>

IdleIrf == irf = << >>

IdleFiscal == fiscal = << >>

IdleApi == api = << >>

IdleJacobian == jacobian = << >>

IdleLimiter == limiter = << >>

IdleOthers == IdleApi /\ IdleJacobian /\ IdleLimiter

IdleTools ==
    /\ IdleDetIrf /\ IdleBuild /\ IdleParamLoad /\ IdleContract /\ IdleIrf
    /\ IdleFiscal /\ IdleOthers

IdleAggregate ==
    /\ sim = NewSimulation(0, None, 0)
    /\ lastCall = [op |-> "new", raised |-> None]

IdleHandler ==
    /\ sims = << >>
    /\ storage = << >>
    /\ pc = << >>
    /\ command = << >>

Init ==
    /\ now = 0
    /\ sim = NewSimulation(0, None, 0)
    /\ lastCall = [op |-> "new", raised |-> None]
    /\ IdleHandler
    /\ IdleSolver
    /\ IdleTools

Tick ==
    /\ now < MaxClock
    /\ now' = now + 1
    /\ UNCHANGED <<aggVars, aggRest>>

Start ==
    LET r == start(sim, now) IN
    /\ sim' = r.sim
    /\ lastCall' = [op |-> "start", raised |-> r.raised]
    /\ UNCHANGED <<now, aggRest>>

Complete ==
    \E results \in SimulationResults :
        LET r == complete(sim, results, now) IN
        /\ sim' = r.sim
        /\ lastCall' = [op |-> "complete", raised |-> r.raised]
        /\ UNCHANGED <<now, aggRest>>

Fail ==
    \E error_message \in ErrorMessages :
        LET r == fail(sim, error_message, now) IN
        /\ sim' = r.sim
        /\ lastCall' = [op |-> "fail", raised |-> r.raised]
        /\ UNCHANGED <<now, aggRest>>

Next == Tick \/ Start \/ Complete \/ Fail

Spec == Init /\ [][Next]_vars

----------------------------------------------------------------------------
(* Claims about the aggregate, checked under Spec *)

(* C1: start succeeds only from Pending, complete only from Running, fail   *)
(* only from Pending or Running; a call made from any other status raises   *)
(* an error (ValueError in the code) and does not change the status.        *)
C1_TransitionGuards ==
    [][ /\ Start =>
            /\ (lastCall'.raised = None) <=> (sim.status = PENDING)
            /\ lastCall'.raised # None =>
                   lastCall'.raised = Some("ValueError") /\ sim'.status = sim.status
        /\ Complete =>
            /\ (lastCall'.raised = None) <=> (sim.status = RUNNING)
            /\ lastCall'.raised # None =>
                   lastCall'.raised = Some("ValueError") /\ sim'.status = sim.status
        /\ Fail =>
            /\ (lastCall'.raised = None) <=> (sim.status \in {PENDING, RUNNING})
            /\ lastCall'.raised # None =>
                   lastCall'.raised = Some("ValueError") /\ sim'.status = sim.status
      ]_vars

(* A run that was started and completed, on which a later fail was rejected *)
C1_Witness ==
    /\ sim.status = COMPLETED
    /\ lastCall = [op |-> "fail", raised |-> Some("ValueError")]

(* C2 as stated: the only status changes are Pending->Running,              *)
(* Running->Completed and Running->Failed.                                  *)
C2_OnlyThreeTransitions ==
    [][ sim'.status # sim.status =>
            <<sim.status, sim'.status>> \in
                {<<PENDING, RUNNING>>, <<RUNNING, COMPLETED>>, <<RUNNING, FAILED>>}
      ]_vars

(* C2 amended: the only status changes are Pending->Running,                *)
(* Running->Completed, Running->Failed and Pending->Failed (fail is         *)
(* accepted on a Pending run); Pending->Completed and every change out of   *)
(* Completed or Failed never occur.                                         *)
C2_LifecycleTransitions ==
    [][ sim'.status # sim.status =>
            <<sim.status, sim'.status>> \in
                {<<PENDING, RUNNING>>, <<RUNNING, COMPLETED>>, <<RUNNING, FAILED>>,
                 <<PENDING, FAILED>>}
      ]_vars

(* A run that failed without ever having been started *)
C2_Witness ==
    /\ sim.status = FAILED
    /\ sim.started_at = None
    /\ lastCall = [op |-> "fail", raised |-> None]

(* C3: a Completed run has results; a Failed run has no results and has an  *)
(* error_message.                                                           *)
C3_ResultsMatchStatus ==
    /\ sim.status = COMPLETED => IsSet(sim.results)
    /\ sim.status = FAILED => sim.results = None /\ IsSet(sim.error_message)

(* A run that failed while Running, with the empty string as its message *)
C3_Witness ==
    /\ sim.status = FAILED
    /\ IsSet(sim.started_at)
    /\ sim.error_message = Some("")

(* C4: a rejected call changes no field of the run, and a finished run      *)
(* keeps its status, results and error_message under every later call.      *)
C4_RejectedCallsChangeNothing ==
    [][ /\ ((Start \/ Complete \/ Fail) /\ lastCall'.raised # None) => sim' = sim
        /\ is_finished(sim) =>
               /\ sim'.status = sim.status
               /\ sim'.results = sim.results
               /\ sim'.error_message = sim.error_message
      ]_vars

(* A finished run on which a later start was rejected after time passed *)
C4_Witness ==
    /\ is_finished(sim)
    /\ lastCall = [op |-> "start", raised |-> Some("ValueError")]
    /\ IsSet(sim.completed_at) /\ Get(sim.completed_at) < now

(* The timestamps a status goes with, for all but the started_at of a       *)
(* Failed run                                                               *)
TimestampsAgree(s) ==
    /\ s.status = PENDING => s.started_at = None /\ s.completed_at = None
    /\ s.status = RUNNING => IsSet(s.started_at) /\ s.completed_at = None
    /\ s.status = COMPLETED => IsSet(s.started_at) /\ IsSet(s.completed_at)
    /\ s.status = FAILED => IsSet(s.completed_at)

(* C29: the timestamps agree with the status in every state reached by      *)
(* start, complete and fail calls on a new run, and a Failed run has        *)
(* started_at set exactly when it was Running when it failed                *)
C29_TimestampsFollowStatus ==
    /\ []TimestampsAgree(sim)
    /\ [][ /\ (sim.status # FAILED /\ sim'.status = FAILED)
               => (IsSet(sim'.started_at) <=> sim.status = RUNNING)
           /\ sim.status = FAILED
               => sim'.status = FAILED /\ sim'.started_at = sim.started_at
         ]_vars

(* A run that failed while Running, some time after it was started *)
C29_Witness ==
    /\ sim.status = FAILED
    /\ IsSet(sim.started_at) /\ IsSet(sim.completed_at)
    /\ Get(sim.started_at) < Get(sim.completed_at)
    /\ lastCall = [op |-> "fail", raised |-> None]

----------------------------------------------------------------------------
(* The repository and the command handler *)

Runs == 1..MaxRuns

(* datetime.utcnow(): a value not before the last one read *)
utcnow == now..MaxClock

(* The wall-clock budget T_max of the orchestrator, in clock ticks *)
TMax == 1

(* InMemorySimulationRepository.save: _storage[simulation.id] = simulation. *)
(* The dictionary keeps a reference to the object, not a copy.             *)
save(store, heap, ref) ==
    [k \in (DOMAIN store) \cup {heap[ref].id} |->
        IF k = heap[ref].id THEN ref ELSE store[k]]

(* InMemorySimulationRepository.get_by_id: _storage.get(simulation_id) *)
get_by_id(store, heap, simulation_id) ==
    IF simulation_id \in DOMAIN store THEN Some(heap[store[simulation_id]]) ELSE None

RunSimulationCommand(policy_text) ==
    [policy_text |-> policy_text, country |-> "LV", horizon_quarters |-> 20]

SimulationParameters(cmd) ==
    [policy_text |-> cmd.policy_text, country |-> cmd.country,
     horizon_quarters |-> cmd.horizon_quarters]

InitHandler ==
    /\ now = 0
    /\ IdleAggregate
    /\ IdleSolver
    /\ IdleTools
    /\ sims = [r \in Runs |-> NewSimulation(r, None, 0)]
    /\ storage = << >>
    /\ pc = [r \in Runs |-> "idle"]
    /\ command = [r \in Runs |-> None]

(* handle_run_simulation.  The event loop runs one coroutine at a time, so *)
(* the code between two awaits is one step; every await is modelled as a   *)
(* point where another coroutine may run.                                  *)

(* simulation = Simulation(parameters=...), with a fresh uuid4 as its id;  *)
(* await self.repository.save(simulation)    -- saved in pending state     *)
HCreate(r) ==
    /\ pc[r] = "idle"
    /\ \A q \in Runs : q < r => pc[q] # "idle"
    /\ \E policy_text \in PolicyTexts, t \in utcnow :
          LET cmd == RunSimulationCommand(policy_text)
              heap == [sims EXCEPT ![r] = NewSimulation(r, Some(SimulationParameters(cmd)), t)]
          IN /\ now' = t
             /\ command' = [command EXCEPT ![r] = Some(cmd)]
             /\ sims' = heap
             /\ storage' = save(storage, heap, r)
    /\ pc' = [pc EXCEPT ![r] = "start"]
    /\ UNCHANGED handlerRest

(* Mutant: the handler forgets to call simulation.start() *)
HStart_NoStart(r) ==
    /\ pc[r] = "start"
    /\ storage' = save(storage, sims, r)
    /\ pc' = [pc EXCEPT ![r] = "sleep"]
    /\ UNCHANGED <<now, handlerRest, sims, command>>

(* simulation.start(); await self.repository.save(simulation) *)
HStart(r) ==
    /\ pc[r] = "start"
    /\ \E t \in utcnow :
          LET res == start(sims[r], t)
              heap == [sims EXCEPT ![r] = res.sim]
          IN /\ now' = t
             /\ sims' = heap
             /\ IF res.raised = None
                THEN storage' = save(storage, heap, r) /\ pc' = [pc EXCEPT ![r] = "sleep"]
                ELSE storage' = storage /\ pc' = [pc EXCEPT ![r] = "raised"]
    /\ UNCHANGED <<handlerRest, command>>

(* await asyncio.sleep(0.5) *)
HSleep(r) ==
    /\ pc[r] = "sleep"
    /\ pc' = [pc EXCEPT ![r] = "simulate"]
    /\ UNCHANGED <<now, handlerRest, sims, storage, command>>

(* Mutant: the command is kept on the shared handler instead of in the     *)
(* coroutine, so the engine is run on the most recently received command.  *)
HSimulate_SharedCommand(r) ==
    /\ pc[r] = "simulate"
    /\ \E t \in utcnow :
          LET latest == CHOOSE q \in Runs :
                           /\ pc[q] # "idle"
                           /\ \A p \in Runs : pc[p] # "idle" => p <= q
              results == simulate(Get(command[latest]).policy_text, t)
              res == complete(sims[r], results, t)
              heap == [sims EXCEPT ![r] = res.sim]
          IN /\ now' = t
             /\ sims' = heap
             /\ IF res.raised = None
                THEN storage' = save(storage, heap, r) /\ pc' = [pc EXCEPT ![r] = "done"]
                ELSE storage' = storage /\ pc' = [pc EXCEPT ![r] = "raised"]
    /\ UNCHANGED <<handlerRest, command>>

(* results = self.engine.simulate(command.policy_text);                    *)
(* simulation.complete(results); await self.repository.save(simulation);   *)
(* return simulation.id                                                    *)
HSimulate(r) ==
    /\ pc[r] = "simulate"
    /\ \E t \in utcnow :
          LET results == simulate(Get(command[r]).policy_text, t)
              res == complete(sims[r], results, t)
              heap == [sims EXCEPT ![r] = res.sim]
          IN /\ now' = t
             /\ sims' = heap
             /\ IF res.raised = None
                THEN storage' = save(storage, heap, r) /\ pc' = [pc EXCEPT ![r] = "done"]
                ELSE storage' = storage /\ pc' = [pc EXCEPT ![r] = "raised"]
    /\ UNCHANGED <<handlerRest, command>>

(* An exception leaves handle_run_simulation while the run is Running: the *)
(* engine's simulate raises, or CancelledError is delivered at the sleep.  *)
(* The handler has no try/except, so nothing else happens.                 *)
HAbort(r) ==
    /\ pc[r] \in {"sleep", "simulate"}
    /\ pc' = [pc EXCEPT ![r] = "raised"]
    /\ UNCHANGED <<now, handlerRest, sims, storage, command>>

NextHandler ==
    \E r \in Runs :
          \/ HCreate(r)
          \/ HStart(r)
          \/ HSleep(r)
          \/ HSimulate(r)

(* The handler as wired in dependencies.py: the DSGE engine, which returns *)
(* a result for every text.                                                *)
SpecHandler == InitHandler /\ [][NextHandler]_vars

NextAbort == NextHandler \/ \E r \in Runs : HAbort(r)

(* The handler when an exception can leave it while the run is Running *)
SpecAbort == InitHandler /\ [][NextAbort]_vars

----------------------------------------------------------------------------
(* Claims about the handler and the repository *)

(* What get_by_id(r) returns, and the status a reader finds in it *)
Entry(r) == get_by_id(storage, sims, r)
Visible(r) == IF Entry(r) = None THEN "absent" ELSE Get(Entry(r)).status

(* Position of a visible status in the lifecycle *)
Rank(st) ==
    CASE st = "absent" -> 0
      [] st = PENDING -> 1
      [] st = RUNNING -> 2
      [] st \in {COMPLETED, FAILED} -> 3

EndsWith(s, suffix) ==
    /\ Len(s) >= Len(suffix)
    /\ SubSeq(s, Len(s) - Len(suffix) + 1, Len(s)) = suffix

(* C5: every run the handler moved to Running ends Completed or Failed in   *)
(* the repository; when the engine raises, the run is failed and saved      *)
(* rather than left Running.  Stated for the runs whose handler has ended.  *)
C5_EndedRunsAreFinished ==
    \A r \in Runs :
        pc[r] \in {"done", "raised"} =>
            Entry(r) # None /\ is_finished(Get(Entry(r)))

(* C6: a run whose deadline (created_at + T_max) has passed when a phase is *)
(* entered ends Failed with a Timeout error and carries no result.          *)
C6_DeadlineEnforced ==
    \A r \in Runs :
        ( /\ pc[r] = "done"
          /\ Get(sims[r].completed_at) - sims[r].created_at > TMax )
        => /\ sims[r].status = FAILED
           /\ sims[r].error_message = Some("Timeout")
           /\ sims[r].results = None

(* C7: the status visible through get_by_id only moves forward in the       *)
(* lifecycle (so no reader sees an earlier state after a later one), the    *)
(* run is visible as Pending when the handler starts it, and it is visible  *)
(* as Running when the handler goes on to invoke the engine.                *)
C7_VisibleStatusesOrdered ==
    [][ \A r \in Runs :
          /\ Rank(Visible(r)') >= Rank(Visible(r))
          /\ (pc[r] = "start" /\ pc'[r] # "start") => Visible(r) = PENDING
          /\ (pc[r] = "sleep" /\ pc'[r] = "simulate") => Visible(r) = RUNNING
          /\ (pc[r] = "simulate" /\ pc'[r] = "done") => Visible(r) = RUNNING
      ]_vars

(* The repository shows one run Completed while a later run is still        *)
(* Pending in it                                                            *)
C7_Witness ==
    \E r, q \in Runs :
        /\ pc[r] = "done" /\ Visible(r) = COMPLETED
        /\ Visible(q) = PENDING

(* C8: a step of one execution changes no other run's repository entry, no  *)
(* execution raises, and an execution that returns has left its run         *)
(* Completed with the result the engine computes from that run's own text.  *)
C8_RunsIndependent ==
    [][ \A r \in Runs :
          /\ pc'[r] = pc[r] => Entry(r)' = Entry(r)
          /\ pc'[r] # "raised"
          /\ pc'[r] = "done" =>
                /\ Visible(r)' = COMPLETED
                /\ sims'[r].results =
                      Some(simulate(Get(command'[r]).policy_text,
                                    Get(sims'[r].completed_at)))
      ]_vars

(* Two runs on different texts, each started before the other completed,    *)
(* both returned                                                            *)
C8_Witness ==
    \E r, q \in Runs :
        /\ r # q
        /\ pc[r] = "done" /\ pc[q] = "done"
        /\ command[r] # command[q]
        /\ Get(sims[r].started_at) < Get(sims[q].completed_at)
        /\ Get(sims[q].started_at) < Get(sims[r].completed_at)

(* C9 as stated: a result of the reduced-form engine has a model_version    *)
(* ending in "-reduced".                                                    *)
C9_ReducedSuffix ==
    \A r \in Runs :
        Visible(r) = COMPLETED =>
            EndsWith(Get(Get(Entry(r)).results).model_version,
                     <<"-", "r", "e", "d", "u", "c", "e", "d">>)

(* C9 amended: every result (all are produced by the reduced-form engine)   *)
(* has a model_version ending in "-simplified".                             *)
C9_SimplifiedSuffix ==
    \A r \in Runs :
        Visible(r) = COMPLETED =>
            EndsWith(Get(Get(Entry(r)).results).model_version,
                     <<"-", "s", "i", "m", "p", "l", "i", "f", "i", "e", "d">>)

(* A completed run whose result reports a detected policy change *)
C9_Witness ==
    \E r \in Runs :
        /\ Visible(r) = COMPLETED
        /\ Get(Get(Entry(r)).results).policy_changes[1][1] = "Reduction"

----------------------------------------------------------------------------
(* gensys.  The systems are diagonal pencils with small integer entries:   *)
(* g0 = diag(system.g0), g1 = diag(system.g1), pi an n x k 0/1 matrix.  For *)
(* a diagonal pencil the ordered QZ decomposition only permutes the        *)
(* equations (stable first, otherwise in their order), so q is a           *)
(* permutation matrix, up to the signs of its entries, which no rank       *)
(* depends on.                                                             *)

(* (g0[i][i], g1[i][i]) of one equation: eigenvalue 1/2, 1 (below div), 2, *)
(* infinite (g1 entry zero), zero (g0 entry zero), and 0/0                 *)
Pencils == {<<1, 2>>, <<1, 1>>, <<2, 1>>, <<1, 0>>, <<0, 1>>, <<0, 0>>}
PiEntries == {0, 1}

LinearSystem(n, k, d, P) ==
    [n |-> n, g0 |-> [i \in 1..n |-> d[i][1]], g1 |-> [i \in 1..n |-> d[i][2]],
     k |-> k, pi |-> P]

(* div = 1.0000001 as the fraction DivNum / DivDen *)
DivNum == 10000001
DivDen == 10000000

(* _select, and np.abs(eigval) < div with eigval = alpha / beta: a zero beta *)
(* gives inf or nan, which is not below div                                 *)
select(alpha, beta) ==
    /\ beta # 0
    /\ Abs(alpha) * DivDen < DivNum * Abs(beta)

RECURSIVE SortedSeq(_)
SortedSeq(S) ==
    IF S = {} THEN << >>
    ELSE LET m == CHOOSE x \in S : \A y \in S : x <= y
         IN <<m>> \o SortedSeq(S \ {m})

RECURSIVE SumOver(_, _)
SumOver(f, S) ==
    IF S = {} THEN 0
    ELSE LET x == CHOOSE y \in S : TRUE IN f[x] + SumOver(f, S \ {x})

(* ordqz(g0, g1, sort=_select): s = diag(alpha), t = diag(beta) with the    *)
(* selected (stable) eigenvalues first, and q with g0 = q s z^H, so that    *)
(* column i of q is the unit vector of the equation sorted to place i      *)
ordqz(sys) ==
    LET N == 1..sys.n
        sel == { i \in N : select(sys.g0[i], sys.g1[i]) }
        order == SortedSeq(sel) \o SortedSeq(N \ sel)
    IN [alpha |-> [i \in N |-> sys.g0[order[i]]],
        beta |-> [i \in N |-> sys.g1[order[i]]],
        q |-> [p \in N |-> [i \in N |-> IF order[i] = p THEN 1 ELSE 0]]]

(* A @ B for an m x n matrix A and an n x k matrix B, as sequences of rows *)
MatMul(A, B, m, n, k) ==
    [r \in 1..m |-> [c \in 1..k |->
        SumOver([j \in 1..n |-> A[r][j] * B[j][c]], 1..n)]]

RemoveAt(sq, j) == SubSeq(sq, 1, j - 1) \o SubSeq(sq, j + 1, Len(sq))

(* Determinant of the square submatrix of M on rows rs and columns cs *)
RECURSIVE Det(_, _, _)
Det(M, rs, cs) ==
    IF rs = << >> THEN 1
    ELSE SumOver([j \in 1..Len(cs) |->
                     (IF j % 2 = 1 THEN 1 ELSE -1) * M[Head(rs)][cs[j]]
                       * (IF M[Head(rs)][cs[j]] = 0 THEN 0
                          ELSE Det(M, Tail(rs), RemoveAt(cs, j)))],
                 1..Len(cs))

(* np.linalg.matrix_rank of an m x k matrix: the size of its largest       *)
(* non-vanishing minor                                                     *)
matrix_rank(M, m, k) ==
    LET sizes == { r \in 0..(IF m < k THEN m ELSE k) :
                     \E R \in SUBSET (1..m), C \in SUBSET (1..k) :
                        /\ Cardinality(R) = r
                        /\ Cardinality(C) = r
                        /\ Det(M, SortedSeq(R), SortedSeq(C)) # 0 }
    IN CHOOSE r \in sizes : \A x \in sizes : x <= r

(* The part of gensys that decides eu, and whether the call returns *)
NStable(sys) ==
    LET d == ordqz(sys)
    IN Cardinality({ i \in 1..sys.n : select(d.alpha[i], d.beta[i]) })

NUnstable(sys) == sys.n - NStable(sys)

(* q2 @ pi with q2 = q[nstable:, :] *)
Q2Pi(sys) ==
    LET d == ordqz(sys)
        q2 == [r \in 1..NUnstable(sys) |-> d.q[NStable(sys) + r]]
    IN MatMul(q2, sys.pi, NUnstable(sys), sys.n, sys.k)

RankQ2Pi(sys) == matrix_rank(Q2Pi(sys), NUnstable(sys), sys.k)

(* Mutant: the rank conditions are evaluated also when nunstable = 0 *)
Determinacy_AlwaysChecked(sys) ==
    LET nunstable == NUnstable(sys)
        rank_q2pi == IF nunstable * sys.k # 0 THEN RankQ2Pi(sys) ELSE 0
    IN IF rank_q2pi < nunstable THEN <<0, 0>>
       ELSE IF rank_q2pi > nunstable THEN <<1, 0>>
       ELSE <<1, IF sys.k = nunstable THEN 1 ELSE 0>>

(* Existence/uniqueness checks: (eu_exist, eu_unique) *)
Determinacy(sys) ==
    LET nunstable == NUnstable(sys)
        rank_q2pi == IF nunstable * sys.k # 0 THEN RankQ2Pi(sys) ELSE 0
    IN IF nunstable > 0
       THEN IF rank_q2pi < nunstable THEN <<0, 0>>
            ELSE IF rank_q2pi > nunstable THEN <<1, 0>>
            ELSE <<1, IF sys.k = nunstable THEN 1 ELSE 0>>
       ELSE <<1, 1>>

(* gensys: returns (G1, C, impact, eu), of which eu is kept.  With a        *)
(* non-empty stable block np.linalg.inv(s11) raises LinAlgError when s11    *)
(* (here diagonal) is singular.                                            *)
gensys(sys) ==
    LET d == ordqz(sys)
        nstable == NStable(sys)
    IN IF nstable > 0 /\ \E i \in 1..nstable : d.alpha[i] = 0
       THEN [raised |-> Some("LinAlgError"), eu |-> None]
       ELSE [raised |-> None, eu |-> Some(Determinacy(sys))]

InitGensys ==
    /\ now = 0
    /\ IdleAggregate
    /\ IdleHandler
    /\ IdleDetIrf
    /\ IdleBuild
    /\ IdleParamLoad
    /\ IdleContract
    /\ IdleIrf
    /\ IdleFiscal
    /\ IdleOthers
    /\ \E n \in 1..MaxN, k \in 0..MaxK :
          \E d \in [1..n -> Pencils], P \in [1..n -> [1..k -> PiEntries]] :
             system = LinearSystem(n, k, d, P)
    /\ solution = None

Gensys ==
    /\ solution = None
    /\ solution' = Some(gensys(system))
    /\ UNCHANGED <<system, solverRest>>

NextGensys == Gensys

SpecGensys == InitGensys /\ [][NextGensys]_vars

(* C10: gensys returns eu = (1,1) exactly when the number of unstable        *)
(* eigenvalues equals the number of columns of pi and rank(q2 pi) equals     *)
(* it, for every system on which it returns.                                 *)
C10_UniqueIffCountAndRank ==
    \A out \in solution :
        out.raised = None =>
            ( (out.eu = Some(<<1, 1>>))
              <=> ( /\ NUnstable(system) = system.k
                    /\ RankQ2Pi(system) = NUnstable(system) ) )

(* C11: on every system on which gensys returns, with n_u unstable          *)
(* eigenvalues, r = rank(q2 pi) and k columns of pi: r < n_u gives (0,0),    *)
(* r = n_u with k = n_u gives (1,1), r = n_u with k > n_u gives (1,0), and   *)
(* eu is never (0,1).                                                        *)
C11_Classification ==
    \A out \in solution :
        out.raised = None =>
            LET nu == NUnstable(system)
                k == system.k
                r == IF nu * k # 0 THEN RankQ2Pi(system) ELSE 0
                eu == Get(out.eu)
            IN /\ (r < nu) => (eu = <<0, 0>>)
               /\ (r = nu /\ k = nu) => (eu = <<1, 1>>)
               /\ (r = nu /\ k > nu) => (eu = <<1, 0>>)
               /\ eu \in {<<0, 0>>, <<1, 0>>, <<1, 1>>}

----------------------------------------------------------------------------
(* scripts/run_determinacy_irf.py *)

(* check_determinacy: eig(g0, g1) gives alpha / beta (inf for a zero beta,   *)
(* nan for 0/0), and a root is unstable when its modulus exceeds div         *)
check_determinacy(sys) ==
    LET unstable == Cardinality({ i \in 1..sys.n :
                        \/ sys.g1[i] = 0 /\ sys.g0[i] # 0
                        \/ sys.g1[i] # 0
                           /\ Abs(sys.g0[i]) * DivDen > DivNum * Abs(sys.g1[i]) })
    IN [stable |-> sys.n - unstable, unstable |-> unstable]

(* solve_linear_model: gensys, its exception passed on *)
solve_linear_model(sys) == gensys(sys)

(* What one run of main leaves: the exit status of the process, the report   *)
(* written to determinacy_report.json (if any) and whether irf_results.npz   *)
(* was written.  main has no sys.exit and returns None on every path, so     *)
(* the status is 0 unless an exception escapes; the only one that does is    *)
(* FileNotFoundError from _load_linear_system.                               *)
main(exists, sys, psi_size) ==
    IF ~exists
    THEN [exit |-> 1, report |-> None, irf |-> FALSE]
    ELSE LET det == check_determinacy(sys)
             sol == solve_linear_model(sys)
         IN IF sol.raised # None
            THEN [exit |-> 0,
                  report |-> Some([stable_roots |-> det.stable,
                                   unstable_roots |-> det.unstable,
                                   eu |-> <<0, 0>>,
                                   solve_error |-> sol.raised]),
                  irf |-> FALSE]
            ELSE [exit |-> 0,
                  report |-> Some([stable_roots |-> det.stable,
                                   unstable_roots |-> det.unstable,
                                   eu |-> Get(sol.eu),
                                   solve_error |-> None]),
                  irf |-> (psi_size # 0)]

InitDetIrf == InitGensys

RunDeterminacyIrf ==
    /\ detIrf = None
    /\ \E exists \in BOOLEAN, psi_size \in {0, 1} :
          detIrf' = Some(main(exists, system, psi_size))
    /\ UNCHANGED <<backendVars, solverVars, build, paramLoad, contract, irf, fiscal,
                   otherVars>>

NextDetIrf == RunDeterminacyIrf

SpecDetIrf == InitDetIrf /\ [][NextDetIrf]_vars

(* C12: a run of run_determinacy_irf exits with status 0 exactly when the    *)
(* solver returned and reported eu = (1,1)                                   *)
C12_ExitZeroIffUnique ==
    \A run \in detIrf :
        (run.exit = 0)
        <=> \E rep \in run.report : rep.solve_error = None /\ rep.eu = <<1, 1>>

----------------------------------------------------------------------------
(* scripts/build_linear_system.py *)

MaxEq == 3      \* largest number of equations in spec.yaml
MaxVars == 2    \* largest number of variables occurring in the equations
MaxShocks == 1  \* largest number of innovation shocks in the equations

(* What happens to an equation on its way through the script: it is kept,   *)
(* matches SKIP_RE / SKIP_INDEX_RE, mentions gamma_g while gamma_g = 0,      *)
(* does not compile, raises when evaluated at the steady state, or has a     *)
(* Jacobian row with an inf or nan                                           *)
EqKinds == {"ok", "indexed_or_integral", "gamma_g_zero", "syntax_error",
            "eval_error", "nonfinite"}

Filter(sq, S) == SelectSeq(sq, LAMBDA x : x \in S)

Range(sq) == { sq[i] : i \in 1..Len(sq) }

(* _build_residual_functions: equations are named by their position; funcs  *)
(* are the compiled residuals, ids the labels returned with them            *)
build_residual_functions(equations) ==
    LET all == [i \in 1..Len(equations) |-> i]
        parsed == Filter(all, { i \in 1..Len(equations) :
                      equations[i] \notin {"indexed_or_integral", "gamma_g_zero"} })
        parse_skipped ==
            [j \in 1..Len(Filter(all, { i \in 1..Len(equations) :
                      equations[i] \in {"indexed_or_integral", "gamma_g_zero"} })) |->
                LET i == Filter(all, { x \in 1..Len(equations) :
                      equations[x] \in {"indexed_or_integral", "gamma_g_zero"} })[j]
                IN [id |-> i, reason |-> equations[i]]]
        bad == Filter(parsed, { i \in 1..Len(equations) :
                      equations[i] = "syntax_error" })
        compiled == Filter(parsed, { i \in 1..Len(equations) :
                      equations[i] # "syntax_error" })
    IN [funcs |-> compiled,
        ids |-> SubSeq(parsed, 1, Len(compiled)),
        skipped |-> parse_skipped
                    \o [j \in 1..Len(bad) |-> [id |-> bad[j], reason |-> "syntax_error"]]]

(* The variable named 0 stands for a name that occurs in no equation *)
Allowlists(nFull) ==
    { [variables |-> SortedSeq(S), notes |-> nt] :
        S \in SUBSET (0..nFull), nt \in {None, Some("core block")} }

Mat(rows, cols) == [rows |-> rows, cols |-> cols]

allowed_skip_reasons == {"indexed_or_integral"}

NewBuild(equations, nFull, allowlist, shocks) ==
    [pc |-> "residuals",
     equations |-> equations,
     full_variables |-> [i \in 1..nFull |-> i],
     allowlist |-> allowlist,
     shocks |-> [i \in 1..shocks |-> i],
     funcs |-> << >>, ids |-> << >>, skipped |-> << >>, eval_skipped |-> << >>,
     variables |-> << >>, allowlist_note |-> None,
     m |-> 0, n |-> 0,
     dropped_nonfinite |-> << >>,
     selection_note |-> "none",
     lin |-> None, saved |-> None, report |-> None, raised |-> None]

InitBuild ==
    /\ now = 0
    /\ IdleAggregate
    /\ IdleHandler
    /\ IdleSolver
    /\ IdleDetIrf
    /\ IdleParamLoad
    /\ IdleContract
    /\ IdleIrf
    /\ IdleFiscal
    /\ IdleOthers
    /\ \E m0 \in 0..MaxEq, nFull \in 1..MaxVars, k \in 0..MaxShocks :
          \E equations \in [1..m0 -> EqKinds],
             allowlist \in {None} \cup { Some(a) : a \in Allowlists(nFull) } :
             build = NewBuild(equations, nFull, allowlist, k)

buildRest == <<backendVars, solverVars, detIrf, paramLoad, contract, irf, fiscal, otherVars>>

(* main, lines 446-471: residual functions, variables, allowlist, shocks *)
BuildResiduals ==
    /\ build # << >>
    /\ build.pc = "residuals"
    /\ LET r == build_residual_functions(build.equations)
           allow_vars == IF build.allowlist = None THEN << >>
                         ELSE Get(build.allowlist).variables
           missing == Filter(allow_vars, Range(allow_vars) \ Range(build.full_variables))
       IN build' =
            IF build.allowlist # None /\ missing # << >>
            THEN [build EXCEPT !.pc = "raised",
                               !.funcs = r.funcs, !.ids = r.ids, !.skipped = r.skipped,
                               !.raised = Some("RuntimeError: variables not present")]
            ELSE [build EXCEPT !.pc = "evaluate",
                               !.funcs = r.funcs, !.ids = r.ids, !.skipped = r.skipped,
                               !.variables = IF build.allowlist = None
                                             THEN build.full_variables
                                             ELSE allow_vars,
                               !.allowlist_note = IF build.allowlist = None THEN None
                                                  ELSE Get(build.allowlist).notes]
    /\ UNCHANGED buildRest

(* main, lines 486-512: drop what fails to evaluate, then the completeness  *)
(* gate                                                                      *)
BuildEvaluate ==
    /\ build # << >>
    /\ build.pc = "evaluate"
    /\ LET okPos == { j \in 1..Len(build.funcs) :
                        build.equations[build.funcs[j]] # "eval_error" }
           badPos == Filter([j \in 1..Len(build.funcs) |-> j],
                            (1..Len(build.funcs)) \ okPos)
           eval_ok_funcs == Filter(build.funcs,
                              { build.funcs[j] : j \in okPos })
           eval_ok_ids == [j \in 1..Len(eval_ok_funcs) |->
                             build.ids[Filter([x \in 1..Len(build.funcs) |-> x], okPos)[j]]]
           eval_skipped == [j \in 1..Len(badPos) |->
                              [id |-> build.ids[badPos[j]], reason |-> "eval_error"]]
           unexpected_skips ==
               SelectSeq(build.skipped \o eval_skipped,
                         LAMBDA item : item.reason \notin allowed_skip_reasons)
       IN build' =
            IF unexpected_skips # << >>
            THEN [build EXCEPT !.pc = "raised",
                               !.funcs = eval_ok_funcs, !.ids = eval_ok_ids,
                               !.eval_skipped = eval_skipped,
                               !.raised = Some("RuntimeError: Core completeness gate failed")]
            ELSE [build EXCEPT !.pc = "linearize",
                               !.funcs = eval_ok_funcs, !.ids = eval_ok_ids,
                               !.eval_skipped = eval_skipped]
    /\ UNCHANGED buildRest

(* Mutant: all pivots are used, not the first `take` *)
(* The ways qr(..., pivoting=True) can end on a rows x cols matrix from      *)
(* which `take` pivots are used: the positions piv[:take], sorted; on an     *)
(* empty matrix LAPACK may instead be refused with a ValueError              *)
Pivots_NoCut(count, take) == { [j \in 1..count |-> j] }

Pivots(count, take) ==
    { SortedSeq(S) : S \in { T \in SUBSET (1..count) : Cardinality(T) = take } }

QrMayRaise(rows, cols) == rows = 0 \/ cols = 0

(* main, lines 514-576: Jacobians, non-finite rows dropped, squaring up *)
BuildLinearize ==
    /\ build # << >>
    /\ build.pc = "linearize"
    /\ LET finite == { i \in Range(build.funcs) : build.equations[i] # "nonfinite" }
           keepPos == Filter([j \in 1..Len(build.funcs) |-> j],
                             { j \in 1..Len(build.funcs) : build.funcs[j] \in finite })
           dropPos == Filter([j \in 1..Len(build.funcs) |-> j],
                             { j \in 1..Len(build.funcs) : build.funcs[j] \notin finite })
           funcs == [j \in 1..Len(keepPos) |-> build.funcs[keepPos[j]]]
           ids == [j \in 1..Len(keepPos) |-> build.ids[keepPos[j]]]
           dropped_nonfinite == [j \in 1..Len(dropPos) |-> build.ids[dropPos[j]]]
           m == Len(funcs)
           n == Len(build.variables)
           b0 == [build EXCEPT !.funcs = funcs, !.ids = ids,
                               !.dropped_nonfinite = dropped_nonfinite,
                               !.m = m, !.n = n]
           g0 == Mat(funcs, build.variables)
           psi == Mat(funcs, build.shocks)
           sys == [g0 |-> g0, g1 |-> g0, pi |-> g0, psi |-> psi,
                   variables |-> build.variables]
           RowPivot(note) ==
               \/ /\ QrMayRaise(3 * n, m)
                  /\ build' = [b0 EXCEPT !.pc = "raised", !.raised = Some("ValueError")]
               \/ \E sel \in Pivots(m, n) :
                     LET rows == [j \in 1..Len(sel) |-> funcs[sel[j]]]
                     IN build' = [b0 EXCEPT
                           !.pc = "save",
                           !.ids = [j \in 1..Len(sel) |-> ids[sel[j]]],
                           !.selection_note = note,
                           !.lin = Some([g0 |-> Mat(rows, build.variables),
                                           g1 |-> Mat(rows, build.variables),
                                           pi |-> Mat(rows, build.variables),
                                           psi |-> Mat(rows, build.shocks),
                                           variables |-> build.variables,
                                           selected_rows |-> sel,
                                           selected_cols |-> [j \in 1..n |-> j]])]
           ColPivot ==
               \/ /\ QrMayRaise(m, n)
                  /\ build' = [b0 EXCEPT !.pc = "raised", !.raised = Some("ValueError")]
               \/ \E sel \in Pivots(n, m) :
                     LET cols == [j \in 1..Len(sel) |-> build.variables[sel[j]]]
                     IN build' = [b0 EXCEPT
                           !.pc = "save",
                           !.variables = cols,
                           !.selection_note = "col_pivot",
                           !.lin = Some([g0 |-> Mat(funcs, cols),
                                           g1 |-> Mat(funcs, cols),
                                           pi |-> Mat(funcs, cols),
                                           psi |-> psi,
                                           variables |-> cols,
                                           selected_rows |-> [j \in 1..m |-> j],
                                           selected_cols |-> sel])]
           NoSelection(note) ==
               build' = [b0 EXCEPT
                           !.pc = "save",
                           !.selection_note = note,
                           !.lin = Some([g0 |-> g0, g1 |-> g0, pi |-> g0, psi |-> psi,
                                           variables |-> build.variables,
                                           selected_rows |-> [j \in 1..m |-> j],
                                           selected_cols |-> [j \in 1..n |-> j]])]
       IN IF build.allowlist_note # None
          THEN IF m < n
               THEN build' = [b0 EXCEPT !.pc = "raised",
                                !.raised = Some("RuntimeError: underdetermined system")]
               ELSE IF m > n THEN RowPivot("allowlist_row_pivot")
               ELSE NoSelection("allowlist")
          ELSE IF m > n THEN RowPivot("row_pivot")
          ELSE IF m < n THEN ColPivot
          ELSE NoSelection("none")
    /\ UNCHANGED buildRest

(* Mutant: pi is saved with one column a shock *)
BuildSave_PiByShock ==
    /\ build # << >>
    /\ build.pc = "save"
    /\ LET l == Get(build.lin)
       IN build' = [build EXCEPT
              !.pc = "report",
              !.saved = Some([g0 |-> l.g0, g1 |-> l.g1,
                              c |-> Mat(l.g0.rows, <<1>>),
                              psi |-> l.psi, pi |-> l.psi,
                              variables |-> l.variables,
                              shocks |-> build.shocks])]
    /\ UNCHANGED buildRest

(* main, lines 578-587: np.savez_compressed of linear_system.npz *)
BuildSave ==
    /\ build # << >>
    /\ build.pc = "save"
    /\ LET l == Get(build.lin)
       IN build' = [build EXCEPT
              !.pc = "report",
              !.saved = Some([g0 |-> l.g0, g1 |-> l.g1,
                              c |-> Mat(l.g0.rows, <<1>>),
                              psi |-> l.psi, pi |-> l.pi,
                              variables |-> l.variables,
                              shocks |-> build.shocks])]
    /\ UNCHANGED buildRest

(* main, lines 589-605: linear_system_report.json *)
BuildReport ==
    /\ build # << >>
    /\ build.pc = "report"
    /\ LET l == Get(build.lin)
       IN build' = [build EXCEPT
              !.pc = "done",
              !.report = Some([equation_count |-> Len(build.funcs),
                               variable_count |-> Len(build.variables),
                               shock_count |-> Len(build.shocks),
                               selected_rows |-> l.selected_rows,
                               selected_cols |-> l.selected_cols,
                               skipped_equations |-> build.skipped \o build.eval_skipped,
                               dropped_nonfinite |-> build.dropped_nonfinite,
                               selection_note |-> build.selection_note,
                               endogenous_allowlist |-> build.allowlist_note])]
    /\ UNCHANGED buildRest

NextBuild ==
    \/ BuildResiduals
    \/ BuildEvaluate
    \/ BuildLinearize
    \/ BuildSave
    \/ BuildReport

SpecBuild == InitBuild /\ [][NextBuild]_vars

(* The process has ended, and its exit status: an exception that leaves     *)
(* main ends the interpreter with status 1                                   *)
BuildEnded == build # << >> /\ build.pc \in {"done", "raised"}
BuildExit == IF build.pc = "raised" THEN 1 ELSE 0

(* C13: with an allowlist file present and fewer retained equations than     *)
(* allowlisted variables, the build fails as underdetermined and never       *)
(* selects columns by pivoting                                               *)
C13_AllowlistUnderdetermined ==
    ( /\ build # << >>
      /\ build.allowlist # None
      /\ build.pc \in {"save", "report", "done", "raised"}
      /\ build.raised \notin { Some("RuntimeError: variables not present"),
                               Some("RuntimeError: Core completeness gate failed") }
      /\ build.m < build.n )
    => /\ build.raised = Some("RuntimeError: underdetermined system")
       /\ build.selection_note # "col_pivot"

(* C14: a run that gets as far as emitting a system has dropped or skipped  *)
(* (at the parse, on evaluation, or for a non-finite Jacobian row) only      *)
(* indexed/integral equations; any other drop ends it at the completeness    *)
(* gate                                                                      *)
UnexpectedDrop ==
    \/ \E j \in 1..Len(build.skipped \o build.eval_skipped) :
          (build.skipped \o build.eval_skipped)[j].reason # "indexed_or_integral"
    \/ build.dropped_nonfinite # << >>

C14_OnlyIndexedDropped ==
    (build # << >> /\ build.pc \in {"save", "report", "done"}) => ~UnexpectedDrop

(* C15: when the completeness gate has failed, the JSON report of dropped    *)
(* and skipped equations has been written by the time the process ends       *)
C15_ReportBeforeGateFailure ==
    ( /\ BuildEnded
      /\ build.raised = Some("RuntimeError: Core completeness gate failed") )
    => /\ BuildExit # 0
       /\ build.report # None

(* C16: every saved system is square and consistent: g0 and g1 are n x n     *)
(* with n the number of saved variable names, psi and pi have n rows, psi    *)
(* has one column per saved shock name, and every saved row is finite        *)
C16_SavedSystemSquare ==
    \A f \in (IF build = << >> THEN {} ELSE build.saved) :
        LET n == Len(f.variables)
        IN /\ Len(f.g0.rows) = n /\ Len(f.g0.cols) = n
           /\ Len(f.g1.rows) = n /\ Len(f.g1.cols) = n
           /\ Len(f.psi.rows) = n /\ Len(f.psi.cols) = Len(f.shocks)
           /\ Len(f.pi.rows) = n
           /\ \A M \in {f.g0, f.g1, f.psi, f.pi} :
                 \A i \in Range(M.rows) : build.equations[i] # "nonfinite"

C16_Witness ==
    /\ build # << >>
    /\ build.pc = "done"
    /\ build.selection_note = "row_pivot"
    /\ build.dropped_nonfinite # << >>
    /\ build.n >= 1
    /\ build.shocks # << >>

----------------------------------------------------------------------------
(* lv_fiscal_dsge/steady_state.py: load_parameters *)

MaxValue == 2   \* parameter values are 0..MaxValue, in units of 1e-12

ParamNames == {"alpha", "tau_c"}
ParamValues == 0..MaxValue

(* The files read, in the order of the loop, and which are *_estimated.yaml *)
ParamFiles == <<"parameters_nonfiscal_calibrated.yaml",
                "parameters_fiscal_calibrated.yaml",
                "parameters_nonfiscal_estimated.yaml",
                "parameters_fiscal_estimated.yaml">>

IsEstimated(i) == i >= 3

(* What a YAML file can bind a name to: a number, a mapping with a          *)
(* posterior mode (estimated files), or something else such as a string     *)
YamlEntries(i) ==
    { [kind |-> "number", value |-> v] : v \in ParamValues }
    \cup (IF IsEstimated(i)
          THEN { [kind |-> "posterior", value |-> v] : v \in ParamValues }
               \cup { [kind |-> "other", value |-> 0] }
          ELSE {})

(* A file is a mapping of some names to entries, or not a mapping at all *)
YamlFiles(i) ==
    { Some(d) : d \in [ParamNames -> {None} \cup { Some(e) : e \in YamlEntries(i) }] }
    \cup {None}

(* The value file i binds name to, if it binds it *)
Bound(i, data, name) ==
    IF data[name] = None THEN None
    ELSE LET e == Get(data[name])
         IN IF IsEstimated(i) /\ e.kind = "other" THEN None ELSE Some(e.value)

(* One pass of the loop body on file i: params after the merge *)
merge(params, i, data) ==
    [name \in ParamNames |->
        IF Bound(i, data, name) = None THEN params[name]
        ELSE Bound(i, data, name)]

InitParamLoad ==
    /\ now = 0
    /\ IdleAggregate
    /\ IdleHandler
    /\ IdleSolver
    /\ IdleDetIrf
    /\ IdleBuild
    /\ IdleContract
    /\ IdleIrf
    /\ IdleFiscal
    /\ IdleOthers
    /\ paramLoad = [next |-> 1,
                    params |-> [name \in ParamNames |-> None],
                    bound |-> [name \in ParamNames |-> << >>],
                    raised |-> None]

paramLoadRest ==
    <<backendVars, solverVars, detIrf, build, contract, irf, fiscal, otherVars>>

(* _load_yaml of the next file and the merge of its bindings; `bound` keeps  *)
(* for each name the values the files read so far have bound it to           *)
LoadFile ==
    /\ paramLoad # << >>
    /\ paramLoad.raised = None
    /\ paramLoad.next <= Len(ParamFiles)
    /\ \E file \in YamlFiles(paramLoad.next) :
          paramLoad' =
            IF file = None
            THEN [paramLoad EXCEPT !.raised = Some("ValueError")]
            ELSE LET data == Get(file)
                     i == paramLoad.next
                 IN [paramLoad EXCEPT
                       !.next = i + 1,
                       !.params = merge(paramLoad.params, i, data),
                       !.bound = [name \in ParamNames |->
                                    IF Bound(i, data, name) = None
                                    THEN paramLoad.bound[name]
                                    ELSE Append(paramLoad.bound[name],
                                                Get(Bound(i, data, name)))]]
    /\ UNCHANGED paramLoadRest

NextParamLoad == LoadFile

SpecParamLoad == InitParamLoad /\ [][NextParamLoad]_vars

(* The tolerance of a conflict, 1e-12, in the units of ParamValues *)
ConflictTol == 1

(* C17: once two files have bound one name to values that differ by more    *)
(* than 1e-12, loading has failed with ParameterConflict (no file is marked  *)
(* as an override)                                                           *)
C17_ConflictRejected ==
    \A name \in ParamNames :
        LET b == paramLoad.bound[name]
        IN (paramLoad # << >>
            /\ \E i, j \in 1..Len(b) : i < j /\ Abs(b[i] - b[j]) > ConflictTol)
           => paramLoad.raised = Some("ParameterConflict")

----------------------------------------------------------------------------
(* lv_fiscal_dsge/steady_state_contract.py *)

MaxResidual == 2    \* residuals are -MaxResidual..MaxResidual, in units of 1e-10

(* Some keys of compute_residuals, in the order of its dict *)
ResidualKeys == <<"markup", "resource_wedge", "import_share">>
ResidualValues == (0 - MaxResidual)..MaxResidual

(* tolerance 1.0e-10, in the units of ResidualValues *)
DefaultTolerance == 1
Tolerances == {DefaultTolerance, 2}

(* Metrics are in halves, so that 1.0 is MetricOne *)
MetricOne == 2

(* The metrics of compute_financial_frictions_metrics that vary here; the   *)
(* others are inside their bounds                                            *)
Metrics ==
    { [omega_bar |-> ob, F_omega_bar |-> 1, G |-> 1, share_to_banks |-> sb,
       net_worth |-> 1, net_worth_ratio |-> 1, transfer_entrepreneurs |-> 1,
       gross_return_ratio |-> gr] :
         ob \in {0, 1}, sb \in {1, 2}, gr \in {1, 2} }

(* steady_state_allowlist.yaml: missing, not a mapping, or a mapping with   *)
(* an optional tolerance and an optional list of exempt residuals            *)
AllowlistFiles ==
    { [exists |-> FALSE, data |-> None], [exists |-> TRUE, data |-> None] }
    \cup { [exists |-> TRUE,
            data |-> Some([tolerance |-> t, exempt_residuals |-> e])] :
             t \in {None} \cup { Some(x) : x \in Tolerances },
             e \in {None} \cup { Some(S) : S \in SUBSET Range(ResidualKeys) } }

(* _load_allowlist on a file that can be loaded *)
load_allowlist(file) ==
    IF ~file.exists
    THEN [tolerance |-> Some(DefaultTolerance), exempt_residuals |-> Some({})]
    ELSE Get(file.data)

(* The invariants of evaluate_contract that are not ok *)
invariant_failures(metrics) ==
    { k \in {"omega_bar_positive", "default_prob_unit_interval", "G_unit_interval",
             "share_to_banks_unit_interval", "net_worth_positive",
             "net_worth_ratio_unit_interval", "transfer_entrepreneurs_positive",
             "external_finance_premium_nonnegative"} :
        ~ CASE k = "omega_bar_positive" -> metrics.omega_bar > 0
            [] k = "default_prob_unit_interval" ->
                   0 <= metrics.F_omega_bar /\ metrics.F_omega_bar <= MetricOne
            [] k = "G_unit_interval" -> 0 <= metrics.G /\ metrics.G <= MetricOne
            [] k = "share_to_banks_unit_interval" ->
                   0 < metrics.share_to_banks /\ metrics.share_to_banks < MetricOne
            [] k = "net_worth_positive" -> metrics.net_worth > 0
            [] k = "net_worth_ratio_unit_interval" ->
                   0 < metrics.net_worth_ratio /\ metrics.net_worth_ratio < MetricOne
            [] k = "transfer_entrepreneurs_positive" ->
                   metrics.transfer_entrepreneurs > 0
            [] k = "external_finance_premium_nonnegative" ->
                   metrics.gross_return_ratio >= MetricOne }

(* max(filtered, key=lambda k: abs(filtered[k])): the first key, in dict    *)
(* order, whose absolute value is the largest                                *)
MaxKey(filtered, residuals) ==
    filtered[CHOOSE j \in 1..Len(filtered) :
                /\ \A x \in 1..Len(filtered) :
                      Abs(residuals[filtered[x]]) <= Abs(residuals[filtered[j]])
                /\ \A x \in 1..(j - 1) :
                      Abs(residuals[filtered[x]]) < Abs(residuals[filtered[j]])]

(* evaluate_contract, from the residuals and metrics of the steady state *)
evaluate_contract(residuals, metrics, allowlist) ==
    LET tolerance == IF allowlist.tolerance = None THEN DefaultTolerance
                     ELSE Get(allowlist.tolerance)
        exempt_keys == IF allowlist.exempt_residuals = None THEN {}
                       ELSE Get(allowlist.exempt_residuals)
        filtered == Filter(ResidualKeys, Range(ResidualKeys) \ exempt_keys)
        max_residual == IF filtered # << >>
                        THEN Abs(residuals[MaxKey(filtered, residuals)])
                        ELSE 0
        failures == invariant_failures(metrics)
    IN [max_residual |-> max_residual,
        max_residual_key |-> IF filtered # << >>
                             THEN MaxKey(filtered, residuals) ELSE "",
        residuals |-> filtered,
        exemptions |-> Range(ResidualKeys) \cap exempt_keys,
        tolerance |-> tolerance,
        wedge_magnitude |-> Abs(residuals["resource_wedge"]),
        invariant_failures |-> failures,
        passed |-> (max_residual <= tolerance /\ failures = {})]

InitContract ==
    /\ now = 0
    /\ IdleAggregate
    /\ IdleHandler
    /\ IdleSolver
    /\ IdleDetIrf
    /\ IdleBuild
    /\ IdleParamLoad
    /\ IdleIrf
    /\ IdleFiscal
    /\ IdleOthers
    /\ \E residuals \in [Range(ResidualKeys) -> ResidualValues],
          metrics \in Metrics, file \in AllowlistFiles :
          contract = [pc |-> "evaluate", residuals |-> residuals,
                      metrics |-> metrics, file |-> file,
                      result |-> None, report |-> None, raised |-> None]

contractRest ==
    <<backendVars, solverVars, detIrf, build, paramLoad, irf, fiscal, otherVars>>

(* main: result = evaluate_contract() *)
ContractEvaluate ==
    /\ contract # << >>
    /\ contract.pc = "evaluate"
    /\ contract' =
         IF contract.file.exists /\ contract.file.data = None
         THEN [contract EXCEPT !.pc = "raised", !.raised = Some("ValueError")]
         ELSE [contract EXCEPT
                 !.pc = "report",
                 !.result = Some(evaluate_contract(contract.residuals,
                                   contract.metrics, load_allowlist(contract.file)))]
    /\ UNCHANGED contractRest

(* main: write_report(result); write_scoreboard(result) *)
ContractReport ==
    /\ contract # << >>
    /\ contract.pc = "report"
    /\ contract' = [contract EXCEPT !.pc = "check", !.report = contract.result]
    /\ UNCHANGED contractRest

(* main: raise RuntimeError unless result.passed *)
ContractCheck ==
    /\ contract # << >>
    /\ contract.pc = "check"
    /\ contract' =
         IF ~Get(contract.result).passed
         THEN [contract EXCEPT !.pc = "raised",
                               !.raised = Some("RuntimeError: Steady-state contract failed")]
         ELSE [contract EXCEPT !.pc = "done"]
    /\ UNCHANGED contractRest

NextContract == ContractEvaluate \/ ContractReport \/ ContractCheck

SpecContract == InitContract /\ [][NextContract]_vars

ContractExit == IF contract.pc = "raised" THEN 1 ELSE 0

(* C18: the contract passes exactly when every residual that is not exempt  *)
(* is within the tolerance in absolute value and no invariant fails, where   *)
(* resource_wedge is exempt whatever the allowlist file says or whether it   *)
(* exists; and the process exits non-zero exactly when it does not pass      *)
C18_PassIffWithinTolerance ==
    ( /\ contract # << >>
      /\ contract.pc \in {"done", "raised"}
      /\ contract.result # None )
    => LET r == Get(contract.result)
           a == load_allowlist(contract.file)
           exempt == {"resource_wedge"}
                     \cup (IF a.exempt_residuals = None THEN {}
                           ELSE Get(a.exempt_residuals))
           within == \A k \in Range(ResidualKeys) \ exempt :
                        Abs(contract.residuals[k]) <= r.tolerance
       IN /\ r.passed <=> (within /\ invariant_failures(contract.metrics) = {})
          /\ (ContractExit # 0) <=> ~r.passed

----------------------------------------------------------------------------
(* lv_fiscal_dsge/irf.py: compute_irfs *)

MaxH == 2       \* largest horizon

(* Shapes (n_vars, n_shocks) of impact, and the entries of the arguments *)
IrfShapes == {<<1, 0>>, <<1, 1>>, <<2, 1>>, <<2, 2>>}
G1Entries == {-1, 0, 2}
ImpactEntries == {1, 2}
ShockSizes == {2, 3}

IrfArguments(g1, impact, horizon, shock_sizes) ==
    [g1 |-> g1, impact |-> impact, horizon |-> horizon, shock_sizes |-> shock_sizes]

(* np.zeros((n_vars, horizon + 1, n_shocks)), indexed [var][t][shock] *)
zeros(n_vars, horizon, n_shocks) ==
    [v \in 1..n_vars |-> [t \in 0..horizon |-> [j \in 1..n_shocks |-> 0]]]

(* Mutant: the response is carried over unchanged *)
propagate_Identity(g1, prev) == prev

(* g1 @ responses[:, t - 1, j] *)
propagate(g1, prev) ==
    [v \in 1..Len(g1) |->
        SumOver([w \in 1..Len(g1) |-> g1[v][w] * prev[w]], 1..Len(g1))]

InitIrf ==
    /\ now = 0
    /\ IdleAggregate
    /\ IdleHandler
    /\ IdleSolver
    /\ IdleDetIrf
    /\ IdleBuild
    /\ IdleParamLoad
    /\ IdleContract
    /\ IdleFiscal
    /\ IdleOthers
    /\ \E shape \in IrfShapes, horizon \in 0..MaxH :
          \E g1 \in [1..shape[1] -> [1..shape[1] -> G1Entries]],
             impact \in [1..shape[1] -> [1..shape[2] -> ImpactEntries]],
             shock_sizes \in {None}
                 \cup { Some(sz) : sz \in [1..shape[2] -> ShockSizes] } :
             irf = [pc |-> "enter",
                    args |-> IrfArguments(g1, impact, horizon, shock_sizes),
                    given |-> IrfArguments(g1, impact, horizon, shock_sizes),
                    n_vars |-> 0, n_shocks |-> 0, shock_sizes |-> << >>,
                    responses |-> << >>, j |-> 0, t |-> 0,
                    returned |-> None]

irfRest ==
    <<backendVars, solverVars, detIrf, build, paramLoad, contract, fiscal, otherVars>>

(* Lines 24-28: shape, default shock sizes, the zero tensor *)
IrfEnter ==
    /\ irf # << >>
    /\ irf.pc = "enter"
    /\ LET n_vars == Len(irf.args.impact)
           n_shocks == Len(irf.args.impact[1])
       IN irf' = [irf EXCEPT
             !.pc = "shock",
             !.n_vars = n_vars, !.n_shocks = n_shocks,
             !.shock_sizes = IF irf.args.shock_sizes = None
                             THEN [j \in 1..n_shocks |-> 1]
                             ELSE Get(irf.args.shock_sizes),
             !.responses = zeros(n_vars, irf.args.horizon, n_shocks),
             !.j = 1]
    /\ UNCHANGED irfRest

(* Lines 30-31: the next shock of the outer loop, or line 35: return *)
IrfShock ==
    /\ irf # << >>
    /\ irf.pc = "shock"
    /\ irf' =
         IF irf.j > irf.n_shocks
         THEN [irf EXCEPT !.pc = "returned", !.returned = Some(irf.responses)]
         ELSE [irf EXCEPT
                 !.pc = "step",
                 !.t = 1,
                 !.responses = [v \in 1..irf.n_vars |->
                     [irf.responses[v] EXCEPT
                        ![0] = [irf.responses[v][0] EXCEPT
                                  ![irf.j] = irf.args.impact[v][irf.j]
                                             * irf.shock_sizes[irf.j]]]]]
    /\ UNCHANGED irfRest

(* Lines 32-33: one pass of the inner loop, or its end *)
IrfStep ==
    /\ irf # << >>
    /\ irf.pc = "step"
    /\ irf' =
         IF irf.t > irf.args.horizon
         THEN [irf EXCEPT !.pc = "shock", !.j = irf.j + 1]
         ELSE LET prev == [w \in 1..irf.n_vars |-> irf.responses[w][irf.t - 1][irf.j]]
                  next == propagate(irf.args.g1, prev)
              IN [irf EXCEPT
                    !.t = irf.t + 1,
                    !.responses = [v \in 1..irf.n_vars |->
                        [irf.responses[v] EXCEPT
                           ![irf.t] = [irf.responses[v][irf.t] EXCEPT
                                         ![irf.j] = next[v]]]]]
    /\ UNCHANGED irfRest

NextIrf == IrfEnter \/ IrfShock \/ IrfStep

SpecIrf == InitIrf /\ [][NextIrf]_vars

(* C19: the tensor compute_irfs returns has shape (n_vars, H+1, n_shocks),  *)
(* starts each shock j at sigma_j times column j of impact (sigma_j = 1      *)
(* without scaling), continues with g1 times the previous period for t in    *)
(* 1..H, and the arguments are as they were given                            *)
C19_IrfRecurrence ==
    \A R \in (IF irf = << >> THEN {} ELSE irf.returned) :
        LET a == irf.given
            n == Len(a.impact)
            k == Len(a.impact[1])
            H == a.horizon
            sigma == [j \in 1..k |-> IF a.shock_sizes = None THEN 1
                                     ELSE Get(a.shock_sizes)[j]]
        IN /\ DOMAIN R = 1..n
           /\ \A v \in 1..n : /\ DOMAIN R[v] = 0..H
                              /\ \A t \in 0..H : DOMAIN R[v][t] = 1..k
           /\ \A j \in 1..k, v \in 1..n :
                 /\ R[v][0][j] = sigma[j] * a.impact[v][j]
                 /\ \A t \in 1..H :
                       R[v][t][j] =
                          SumOver([w \in 1..n |-> a.g1[v][w] * R[w][t - 1][j]], 1..n)
           /\ irf.args = irf.given

C19_Witness ==
    /\ irf # << >>
    /\ irf.pc = "returned"
    /\ irf.n_vars = 2
    /\ irf.n_shocks = 2
    /\ irf.args.horizon = MaxH
    /\ irf.args.shock_sizes # None
    /\ \E v \in 1..2 :
          /\ Get(irf.returned)[v][MaxH][2] # 0
          /\ Get(irf.returned)[v][MaxH][2] # Get(irf.returned)[v][0][2]

----------------------------------------------------------------------------
(* domain/services/dsge_fiscal_solver.py: solve_fiscal_shock, and steps 2    *)
(* to 5 of DSGESimulationEngine.simulate, called any number of times on the  *)
(* one engine of the application.  Floats are fixed-point numbers:           *)
(* fractions in 1/FracScale, amounts in tenths of EUR m, percentages and     *)
(* percentage points in hundredths, as the code rounds them.                 *)

MaxSims == 3    \* calls of simulate on the engine
MaxYear == 15   \* latest year the adjustment schedule is evaluated at

BaselineGdp == 32000
EmploymentTotal == 900000
FracScale == 10000

(* round(): to the nearest, ties to even; num / den with den > 0.  Where a  *)
(* decimal tie is not a tie of the binary float the code rounds, the code   *)
(* may settle it the other way                                               *)
RoundDiv(num, den) ==
    LET q == num \div den
        r == num - q * den
    IN IF 2 * r < den THEN q
       ELSE IF 2 * r > den THEN q + 1
       ELSE IF q % 2 = 0 THEN q ELSE q + 1

(* int(): truncation towards zero of num / den with den > 0 *)
TruncDiv(num, den) == IF num >= 0 THEN num \div den ELSE 0 - ((0 - num) \div den)

ReportedYears == <<1, 5, 15>>

(* FiscalParameters(): the fields the solver reads, multipliers in tenths   *)
(* and adjustment speeds in hundredths                                       *)
FiscalParameters ==
    [fiscal_multiplier_transfers |-> 8,
     fiscal_multiplier_consumption |-> 11,
     fiscal_multiplier_investment |-> 13,
     adjustment_speed_short |-> 40,
     adjustment_speed_medium |-> 25,
     adjustment_speed_long |-> 15]

(* Mutant: the long-run adjustment all but stalls *)
adjustment_speed_LongStall(year) ==
    IF year = 1 THEN fiscal.params.adjustment_speed_short
    ELSE IF year <= 5 THEN fiscal.params.adjustment_speed_medium
    ELSE 1

(* self.params.adjustment_speed_short / _medium / _long, in hundredths *)
adjustment_speed(year) ==
    IF year = 1 THEN fiscal.params.adjustment_speed_short
    ELSE IF year <= 5 THEN fiscal.params.adjustment_speed_medium
    ELSE fiscal.params.adjustment_speed_long

(* base ** quarters for base in hundredths, result in 1/FracScale, by       *)
(* squaring, each product rounded                                            *)
RECURSIVE Power(_, _)
Power(base, quarters) ==
    IF quarters = 0 THEN FracScale
    ELSE IF quarters % 2 = 0
    THEN CHOOSE p \in { RoundDiv(half * half, FracScale) :
                          half \in {Power(base, quarters \div 2)} } : TRUE
    ELSE CHOOSE p \in { RoundDiv(prev * base, 100) :
                          prev \in {Power(base, quarters - 1)} } : TRUE

(* realized_fraction = 1 - (1 - speed) ** quarters, quarters = year * 4 *)
realized_fraction(year) ==
    FracScale - Power(100 - adjustment_speed(year), year * 4)

(* The shocks given to the solver: what interpret_policy_to_shock can give,  *)
(* and shocks to several expenditure items at once                           *)
FiscalShocks ==
    { FiscalShock(tr, gc, gi, 0, 0) :
        tr \in {-100, 0, 100}, gc \in {-80, 0, 50}, gi \in {-150, 0, 150} }
    \cup { FiscalShock(tr, 0, 0, 0, 0) : tr \in {-200, 200} }
    \cup { FiscalShock(0, gc, 0, 0, 0) : gc \in {-100, 100, -50, 80} }
    \cup { FiscalShock(0, 0, 0, tc, 0) : tc \in {-1, 1} }
    \cup { FiscalShock(0, 0, 0, 0, ty) : ty \in {-1, 1} }
    \cup { interpret_policy_to_shock(p) : p \in PolicyTexts }

(* solve_fiscal_shock: the "horizons" of the solution *)
solve_fiscal_shock(shock) ==
    LET effective_labor_tax_change ==
            shock.delta_tau_y + shock.delta_tau_w_e + shock.delta_tau_w_w
        \* first-round GDP impact in tenths of EUR m: the multipliers of
        \* self.params, and 0.01 * gdp * 1.2, 0.01 * gdp * 0.5 for the taxes
        gdp_impact_first_round ==
            shock.delta_transfers * fiscal.params.fiscal_multiplier_transfers
            + shock.delta_gov_consumption * fiscal.params.fiscal_multiplier_consumption
            + shock.delta_gov_investment * fiscal.params.fiscal_multiplier_investment
            - effective_labor_tax_change * ((BaselineGdp * 12) \div 100)
            - shock.delta_tau_c * ((BaselineGdp * 5) \div 100)
        \* (first round / gdp) * 0.5 * employment_total, in 1/32 jobs
        employment_impact_first_round ==
            gdp_impact_first_round
              * ((EmploymentTotal \div 2) \div ((10 * BaselineGdp) \div 32))
        expenditure_impact ==
            shock.delta_transfers + shock.delta_gov_consumption
            + shock.delta_gov_investment
        \* in EUR m: 0.01 * gdp * 0.6 and 0.01 * gdp * 0.5 are whole numbers
        revenue_impact ==
            (0 - expenditure_impact)
            + shock.delta_tau_c * ((BaselineGdp * 6) \div 1000)
            + effective_labor_tax_change * ((BaselineGdp * 5) \div 1000)
        budget_balance_impact == revenue_impact - expenditure_impact
    IN [i \in 1..Len(ReportedYears) |->
          LET year == ReportedYears[i]
              rf == realized_fraction(year)
          IN [year |-> year,
              gdp_impact_eur_m |-> RoundDiv(gdp_impact_first_round * rf, FracScale),
              gdp_real_pct |->
                  RoundDiv(gdp_impact_first_round * rf, (FracScale * BaselineGdp) \div 1000),
              employment_jobs |->
                  RoundDiv(employment_impact_first_round * rf, 32 * FracScale),
              budget_balance_eur_m |->
                  RoundDiv(budget_balance_impact * 10 * rf, FracScale),
              revenues_eur_m |-> RoundDiv(revenue_impact * 10 * rf, FracScale),
              expenditures_eur_m |->
                  RoundDiv((0 - expenditure_impact) * 10 * rf, FracScale),
              inflation_pp |->
                  RoundDiv(gdp_impact_first_round * rf * 3,
                           (FracScale * BaselineGdp) \div 100),
              realized_fraction |-> RoundDiv(rf, FracScale \div 100)]]

(* simulate, step 3: HorizonImpact records *)
horizon_impacts(horizons) ==
    [i \in 1..Len(horizons) |->
        [year |-> horizons[i].year,
         budget_balance_eur_m |-> horizons[i].budget_balance_eur_m,
         revenues_eur_m |-> horizons[i].revenues_eur_m,
         expenditures_eur_m |-> horizons[i].expenditures_eur_m,
         gdp_real_pct |-> horizons[i].gdp_real_pct,
         employment_jobs |-> horizons[i].employment_jobs,
         inflation_pp |-> horizons[i].inflation_pp]]

(* REGION_WEIGHTS, in hundredths, in the order of the dict *)
LATVIA_REGIONS == <<"Riga", "Pieriga", "Kurzeme", "Zemgale", "Vidzeme", "Latgale">>
REGION_WEIGHTS == <<42, 18, 12, 9, 10, 9>>

(* Mutant: no employment change is reported as a decrease *)
direction_NoNeutral(regional_employment) ==
    IF regional_employment > 0 THEN "increase" ELSE "decrease"

direction(regional_employment) ==
    IF regional_employment > 0 THEN "increase"
    ELSE IF regional_employment < 0 THEN "decrease" ELSE "neutral"

(* simulate, step 4: RegionalImpact records, horizon by horizon *)
regional_impacts(horizons) ==
    [x \in 1..(Len(horizons) * Len(LATVIA_REGIONS)) |->
        LET horizon == horizons[((x - 1) \div Len(LATVIA_REGIONS)) + 1]
            r == ((x - 1) % Len(LATVIA_REGIONS)) + 1
            weight == REGION_WEIGHTS[r]
            regional_employment == TruncDiv(horizon.employment_jobs * weight, 100)
        IN [area |-> LATVIA_REGIONS[r],
            year |-> horizon.year,
            gdp_real_pct |-> RoundDiv(horizon.gdp_real_pct * weight, 100),
            employment_jobs |-> regional_employment,
            income_tax_eur_m |-> RoundDiv(horizon.revenues_eur_m * weight * 4, 1000),
            social_spending_eur_m |->
                RoundDiv(Abs(horizon.expenditures_eur_m) * weight * 3, 1000),
            direction |-> direction(regional_employment)]]

(* fdi_multiplier * 0.15, in thousandths *)
fdi_share(year) == IF year = 1 THEN 15 ELSE IF year = 5 THEN 45 ELSE 75

(* simulate, step 5: InvestmentImpact records, amounts in tenths of EUR m *)
investment_impacts(shock, horizons) ==
    [i \in 1..Len(horizons) |->
        LET horizon == horizons[i]
            gdp_impact == horizon.gdp_impact_eur_m
            \* the three parts and their sum in 1/10000 EUR m
            public_inv == shock.delta_gov_investment * horizon.realized_fraction * 100
            private_inv == gdp_impact * 300
            fdi_inv == gdp_impact * fdi_share(horizon.year)
            total_inv == public_inv + private_inv + fdi_inv
        IN [year |-> horizon.year,
            public_investment_eur_m |-> RoundDiv(public_inv, 1000),
            private_investment_eur_m |-> RoundDiv(private_inv, 1000),
            fdi_investment_eur_m |-> RoundDiv(fdi_inv, 1000),
            total_investment_eur_m |-> RoundDiv(total_inv, 1000),
            direction |-> IF total_inv > 0 THEN "increase" ELSE "decrease"]]

(* The policy texts given to simulate *)
EnginePolicies == PolicyTexts

InitFiscal ==
    /\ now = 0
    /\ IdleAggregate
    /\ IdleHandler
    /\ IdleSolver
    /\ IdleDetIrf
    /\ IdleBuild
    /\ IdleParamLoad
    /\ IdleContract
    /\ IdleIrf
    /\ IdleOthers
    /\ \E shock \in FiscalShocks :
          fiscal = [pc |-> "solve", params |-> FiscalParameters,
                    shock |-> shock, horizons |-> << >>,
                    horizon_impacts |-> << >>, regional_impacts |-> << >>,
                    investment_impacts |-> << >>, returned |-> << >>]

fiscalRest ==
    <<backendVars, solverVars, detIrf, build, paramLoad, contract, irf, otherVars>>

(* Mutant: the solver recalibrates its transfer multiplier after a solve *)
FiscalSolve_Recalibrate ==
    /\ fiscal # << >>
    /\ fiscal.pc = "solve"
    /\ fiscal' = [fiscal EXCEPT !.pc = "horizons",
                                !.horizons = solve_fiscal_shock(fiscal.shock),
                                !.params.fiscal_multiplier_transfers = @ + 1]
    /\ UNCHANGED fiscalRest

(* simulate, step 2: solution = self.solver.solve_fiscal_shock(shock) *)
FiscalSolve ==
    /\ fiscal # << >>
    /\ fiscal.pc = "solve"
    /\ fiscal' = [fiscal EXCEPT !.pc = "horizons",
                                !.horizons = solve_fiscal_shock(fiscal.shock)]
    /\ UNCHANGED fiscalRest

FiscalHorizons ==
    /\ fiscal # << >>
    /\ fiscal.pc = "horizons"
    /\ fiscal' = [fiscal EXCEPT !.pc = "regions",
                                !.horizon_impacts = horizon_impacts(fiscal.horizons)]
    /\ UNCHANGED fiscalRest

FiscalRegions ==
    /\ fiscal # << >>
    /\ fiscal.pc = "regions"
    /\ fiscal' = [fiscal EXCEPT !.pc = "investment",
                                !.regional_impacts = regional_impacts(fiscal.horizons)]
    /\ UNCHANGED fiscalRest

FiscalInvestment ==
    /\ fiscal # << >>
    /\ fiscal.pc = "investment"
    /\ fiscal' = [fiscal EXCEPT !.pc = "return",
                                !.investment_impacts =
                                    investment_impacts(fiscal.shock, fiscal.horizons)]
    /\ UNCHANGED fiscalRest

(* Lines 139-173: the SimulationResults the call returns *)
FiscalReturn ==
    /\ fiscal # << >>
    /\ fiscal.pc = "return"
    /\ fiscal' = [fiscal EXCEPT !.pc = "done",
                                !.returned = Append(@,
                                    [shock |-> fiscal.shock,
                                     horizon_impacts |-> fiscal.horizon_impacts,
                                     regional_impacts |-> fiscal.regional_impacts,
                                     investment_impacts |-> fiscal.investment_impacts])]
    /\ UNCHANGED fiscalRest

(* Another call of simulate on the same engine: lines 48-49, the shock of   *)
(* the policy text, and the fresh locals of the new call                     *)
FiscalSimulate ==
    /\ fiscal # << >>
    /\ fiscal.pc = "done"
    /\ Len(fiscal.returned) < MaxSims
    /\ \E policy_text \in EnginePolicies :
          fiscal' = [fiscal EXCEPT !.pc = "solve",
                                   !.shock = interpret_policy_to_shock(policy_text),
                                   !.horizons = << >>,
                                   !.horizon_impacts = << >>,
                                   !.regional_impacts = << >>,
                                   !.investment_impacts = << >>]
    /\ UNCHANGED fiscalRest

NextFiscal ==
    \/ FiscalSolve
    \/ FiscalHorizons
    \/ FiscalRegions
    \/ FiscalInvestment
    \/ FiscalReturn
    \/ FiscalSimulate

SpecFiscal == InitFiscal /\ [][NextFiscal]_vars

(* C20: for the all-zero shock every horizon record has budget balance,      *)
(* revenues, expenditures, GDP %, employment change and inflation equal to   *)
(* 0, and every regional record has employment 0 and direction neutral       *)
C20_ZeroShockZeroImpact ==
    (fiscal # << >> /\ fiscal.shock = FiscalShock(0, 0, 0, 0, 0))
    => /\ \A i \in 1..Len(fiscal.horizon_impacts) :
             LET h == fiscal.horizon_impacts[i]
             IN /\ h.year = ReportedYears[i]
                /\ h.budget_balance_eur_m = 0
                /\ h.revenues_eur_m = 0
                /\ h.expenditures_eur_m = 0
                /\ h.gdp_real_pct = 0
                /\ h.employment_jobs = 0
                /\ h.inflation_pp = 0
       /\ \A x \in 1..Len(fiscal.regional_impacts) :
             /\ fiscal.regional_impacts[x].employment_jobs = 0
             /\ fiscal.regional_impacts[x].direction = "neutral"

C20_Witness ==
    /\ fiscal # << >>
    /\ fiscal.shock = FiscalShock(0, 0, 0, 0, 0)
    /\ fiscal.pc = "done"
    /\ Len(fiscal.horizon_impacts) = 3
    /\ Len(fiscal.regional_impacts) = 18

(* C21: any two calls of simulate on the same shock returned the same        *)
(* horizon, regional and investment impacts, whatever calls came before or   *)
(* between them                                                              *)
C21_Deterministic ==
    fiscal # << >>
    => \A i, j \in 1..Len(fiscal.returned) :
          fiscal.returned[i].shock = fiscal.returned[j].shock
          => fiscal.returned[i] = fiscal.returned[j]

(* Two calls on the pension text with a call on another text between them *)
C21_Witness ==
    /\ fiscal # << >>
    /\ Len(fiscal.returned) >= 3
    /\ fiscal.returned[1].shock = FiscalShock(-200, 0, 0, 0, 0)
    /\ fiscal.returned[2].shock = FiscalShock(0, 100, 0, 0, 0)
    /\ fiscal.returned[3].shock = fiscal.returned[1].shock
    /\ fiscal.returned[3].horizon_impacts[1].employment_jobs < 0
    /\ Len(fiscal.returned[3].investment_impacts) = 3

regional_employment_sum(i) ==
    LET first == (i - 1) * Len(LATVIA_REGIONS)
    IN SumOver([r \in 1..Len(LATVIA_REGIONS) |->
                   fiscal.regional_impacts[first + r].employment_jobs],
               1..Len(LATVIA_REGIONS))

(* C23: in every reported year the regional employment changes add up to the *)
(* national employment change of that year, to within one job                *)
C23_RegionalSumWithinOneJob ==
    (fiscal # << >> /\ Len(fiscal.regional_impacts) > 0)
    => \A i \in 1..Len(fiscal.horizon_impacts) :
          Abs(regional_employment_sum(i) - fiscal.horizon_impacts[i].employment_jobs) <= 1

(* C26: in every horizon record the budget balance is the revenue effect     *)
(* less the expenditure effect, up to the rounding of each to 0.1            *)
C26_BalanceIsRevenueLessExpenditure ==
    fiscal # << >>
    => \A i \in 1..Len(fiscal.horizon_impacts) :
          LET h == fiscal.horizon_impacts[i]
          IN Abs(h.budget_balance_eur_m - (h.revenues_eur_m - h.expenditures_eur_m)) <= 2

(* C27: public investment is the investment shock times the realized         *)
(* fraction that scales the GDP impact, rounded to 0.1                       *)
C27_PublicInvestmentUnrounded ==
    fiscal # << >>
    => \A i \in 1..Len(fiscal.investment_impacts) :
          fiscal.investment_impacts[i].public_investment_eur_m
            = RoundDiv(fiscal.shock.delta_gov_investment * 10
                         * realized_fraction(fiscal.investment_impacts[i].year),
                       FracScale)

----------------------------------------------------------------------------
(* economic_api/main.py: request_context_middleware and the exception       *)
(* handlers, for one request.  The middleware is added last and so wraps    *)
(* CORS, the handlers for HTTPException and RequestValidationError and the  *)
(* routes; the handler for Exception runs outside it.                        *)

REQUEST_ID_HEADER == "X-Request-ID"

(* Values of the request's X-Request-ID header: a field value arrives       *)
(* without surrounding whitespace, or is blank                               *)
HeaderValues == {"", "   ", "req-1", "req-2"}

(* str.strip() on the header values *)
Strip(v) == IF v \in {"", "   "} THEN "" ELSE v

(* str(uuid4()) *)
Uuids == {"uuid-1", "uuid-2"}

(* What the application inside the middleware does with the request *)
RouteOutcomes ==
    { [kind |-> "success", status |-> 200],
      [kind |-> "preflight", status |-> 200],
      [kind |-> "validation_error", status |-> 422],
      [kind |-> "unhandled", status |-> 500] }
    \cup { [kind |-> "http_exception", status |-> st] : st \in {400, 404, 429, 503} }
    \cup { [kind |-> "router_error", status |-> st] : st \in {404, 405} }

error_code_for_status(status_code) ==
    CASE status_code = 400 -> "bad_request"
      [] status_code = 404 -> "not_found"
      [] status_code = 409 -> "conflict"
      [] status_code = 422 -> "validation_error"
      [] status_code = 429 -> "rate_limited"
      [] status_code = 503 -> "upstream_unavailable"
      [] OTHER -> IF status_code >= 500 THEN "internal_error" ELSE "api_error"

(* _request_id_from_header; fresh is what _new_request_id would return *)
request_id_from_header(header, fresh) ==
    LET incoming == IF header = None THEN "" ELSE Strip(Get(header))
    IN IF incoming # "" THEN incoming ELSE fresh

(* _request_id_from_request: request.state.request_id if it is set *)
request_id_from_request(state, header, fresh) ==
    IF state # None /\ Strip(Get(state)) # "" THEN Get(state)
    ELSE request_id_from_header(header, fresh)

(* The "error" object of _error_payload *)
error_payload(status_code, request_id) ==
    [code |-> error_code_for_status(status_code), request_id |-> request_id]

(* A response: status, its X-Request-ID header, the error object of its body *)
Response(status, header, error) ==
    [status |-> status, x_request_id |-> header, error |-> error]

http_exception_handler(state, header, fresh, status) ==
    LET request_id == request_id_from_request(state, header, fresh)
    IN Response(status, Some(request_id), Some(error_payload(status, request_id)))

validation_exception_handler(state, header, fresh) ==
    LET request_id == request_id_from_request(state, header, fresh)
    IN Response(422, Some(request_id), Some(error_payload(422, request_id)))

unhandled_exception_handler(state, header, fresh) ==
    LET request_id == request_id_from_request(state, header, fresh)
    IN Response(500, Some(request_id), Some(error_payload(500, request_id)))

InitApi ==
    /\ now = 0
    /\ IdleAggregate
    /\ IdleHandler
    /\ IdleSolver
    /\ IdleDetIrf
    /\ IdleBuild
    /\ IdleParamLoad
    /\ IdleContract
    /\ IdleIrf
    /\ IdleFiscal
    /\ IdleJacobian
    /\ IdleLimiter
    /\ \E header \in {None} \cup { Some(v) : v \in HeaderValues } :
          api = [pc |-> "received", header |-> header, state |-> None,
                 request_id |-> None, outcome |-> None, raised |-> FALSE,
                 response |-> None]

apiRest ==
    <<backendVars, solverVars, detIrf, build, paramLoad, contract, irf, fiscal,
      jacobian, limiter>>

(* request_context_middleware, lines 123-125 *)
ApiMiddlewareEnter ==
    /\ api # << >>
    /\ api.pc = "received"
    /\ \E fresh \in Uuids :
          LET request_id == request_id_from_header(api.header, fresh)
          IN api' = [api EXCEPT !.pc = "call_next",
                                !.request_id = Some(request_id),
                                !.state = Some(request_id)]
    /\ UNCHANGED apiRest

(* Line 127, call_next: CORS answers a preflight itself; a route returns,   *)
(* or raises fastapi's HTTPException or a RequestValidationError, which the *)
(* registered handlers turn into responses; the router's own 404 and 405    *)
(* are Starlette's HTTPException, for which main.py registers no handler,   *)
(* so the framework's default answers with {"detail": ...}; anything else   *)
(* propagates                                                               *)
ApiCallNext ==
    /\ api # << >>
    /\ api.pc = "call_next"
    /\ \E outcome \in RouteOutcomes, fresh \in Uuids :
          api' = [api EXCEPT
                    !.pc = "returned",
                    !.outcome = Some(outcome),
                    !.raised = (outcome.kind = "unhandled"),
                    !.response =
                       CASE outcome.kind \in {"success", "preflight"} ->
                              Some(Response(outcome.status, None, None))
                         [] outcome.kind = "http_exception" ->
                              Some(http_exception_handler(api.state, api.header,
                                                          fresh, outcome.status))
                         [] outcome.kind = "validation_error" ->
                              Some(validation_exception_handler(api.state, api.header,
                                                                fresh))
                         [] outcome.kind = "router_error" ->
                              Some(Response(outcome.status, None, None))
                         [] OTHER -> None]
    /\ UNCHANGED apiRest

(* Lines 132-134: the header is set on the response *)
ApiMiddlewareExit ==
    /\ api # << >>
    /\ api.pc = "returned"
    /\ ~api.raised
    /\ api' = [api EXCEPT !.pc = "done",
                          !.response = Some([Get(api.response) EXCEPT
                                               !.x_request_id = api.request_id])]
    /\ UNCHANGED apiRest

(* Lines 128-130, then lines 169-183 outside the middleware *)
ApiUnhandled ==
    /\ api # << >>
    /\ api.pc = "returned"
    /\ api.raised
    /\ \E fresh \in Uuids :
          api' = [api EXCEPT !.pc = "done",
                             !.response = Some(unhandled_exception_handler(
                                                  api.state, api.header, fresh))]
    /\ UNCHANGED apiRest

NextApi == ApiMiddlewareEnter \/ ApiCallNext \/ ApiMiddlewareExit \/ ApiUnhandled

SpecApi == InitApi /\ [][NextApi]_vars

ApiResponse == Get(api.response)

(* C24: every response carries an X-Request-ID header, equal to the         *)
(* request's when that was not blank, and an error response has an error    *)
(* object whose request_id equals the header                                *)
C24_RequestIdEverywhere ==
    (api # << >> /\ api.pc = "done")
    => /\ ApiResponse.x_request_id # None
       /\ (api.header # None /\ Strip(Get(api.header)) # "")
             => ApiResponse.x_request_id = api.header
       /\ ApiResponse.status >= 400
             => /\ ApiResponse.error # None
                /\ Get(ApiResponse.error).request_id = Get(ApiResponse.x_request_id)

----------------------------------------------------------------------------
(* scripts/build_linear_system.py: _numeric_jacobian and the assembly of    *)
(* g0, g1, pi and psi (lines 514-517), on residuals that are linear in the  *)
(* current, lagged and lead variables and in the shocks.  Numbers are in    *)
(* units of eps, the step of the central difference.                        *)

EpsInverse == 2     \* 1.0 in units of eps

(* Shapes <<equations, variables, shocks>> and the entries of the residuals *)
JacShapes == {<<1, 1, 1>>, <<2, 1, 0>>, <<1, 2, 1>>}
Coefficients == {-1, 0, 2}
SteadyValues == {0, 2 * EpsInverse}
ShockValues == {0, EpsInverse}

(* The names a residual is written in *)
Current(j) == <<"t", j>>
lag_name(j) == <<"m1", j>>
lead_name(j) == <<"p1", j>>
ShockName(k) == <<"eps", k>>

Symbols(n_vars, n_shocks) ==
    { Current(j) : j \in 1..n_vars } \cup { lag_name(j) : j \in 1..n_vars }
    \cup { lead_name(j) : j \in 1..n_vars } \cup { ShockName(k) : k \in 1..n_shocks }

(* f(values) of a compiled residual: a constant and one coefficient a name *)
Residual(f, values) ==
    f.const + SumOver([name \in DOMAIN f.coef |-> f.coef[name] * values[name]],
                      DOMAIN f.coef)

(* _numeric_jacobian: central differences, one name of var_list at a time,  *)
(* the value of the name put back afterwards                                *)
numeric_jacobian(funcs, values, var_list) ==
    [i \in 1..Len(funcs) |->
        [j \in 1..Len(var_list) |->
            LET var == var_list[j]
                orig == values[var]
                h == IF Abs(orig) < EpsInverse THEN 1 ELSE Abs(orig) \div EpsInverse
                f_plus == Residual(funcs[i], [values EXCEPT ![var] = orig + h])
                f_minus == Residual(funcs[i], [values EXCEPT ![var] = orig - h])
            IN (f_plus - f_minus) \div (2 * h)]]

InitJacobian ==
    /\ now = 0
    /\ IdleAggregate
    /\ IdleHandler
    /\ IdleSolver
    /\ IdleDetIrf
    /\ IdleBuild
    /\ IdleParamLoad
    /\ IdleContract
    /\ IdleIrf
    /\ IdleFiscal
    /\ IdleApi
    /\ IdleLimiter
    /\ \E shape \in JacShapes :
          LET n_eq == shape[1]
              n_vars == shape[2]
              n_shocks == shape[3]
          IN \E coef \in [1..n_eq -> [Symbols(n_vars, n_shocks) -> Coefficients]],
                const \in [1..n_eq -> {0, 1}],
                steady \in [1..n_vars -> SteadyValues],
                shock \in [1..n_shocks -> ShockValues] :
                jacobian =
                  [pc |-> "g0",
                   funcs |-> [i \in 1..n_eq |-> [coef |-> coef[i], const |-> const[i]]],
                   variables |-> [j \in 1..n_vars |-> Current(j)],
                   shocks |-> [k \in 1..n_shocks |-> ShockName(k)],
                   \* lines 475-484: lags and leads take the value of the variable
                   values |-> [name \in Symbols(n_vars, n_shocks) |->
                                 IF name[1] = "eps" THEN shock[name[2]]
                                 ELSE steady[name[2]]],
                   g0 |-> << >>, g1 |-> << >>, pi |-> << >>, psi |-> << >>]

jacobianRest ==
    <<backendVars, solverVars, detIrf, build, paramLoad, contract, irf, fiscal,
      api, limiter>>

(* Line 514 *)
JacobianG0 ==
    /\ jacobian # << >>
    /\ jacobian.pc = "g0"
    /\ jacobian' = [jacobian EXCEPT
                      !.pc = "g1",
                      !.g0 = numeric_jacobian(jacobian.funcs, jacobian.values,
                                              jacobian.variables)]
    /\ UNCHANGED jacobianRest

(* Line 515 *)
JacobianG1 ==
    /\ jacobian # << >>
    /\ jacobian.pc = "g1"
    /\ jacobian' = [jacobian EXCEPT
                      !.pc = "pi",
                      !.g1 = numeric_jacobian(jacobian.funcs, jacobian.values,
                                [j \in 1..Len(jacobian.variables) |-> lag_name(j)])]
    /\ UNCHANGED jacobianRest

(* Line 516 *)
JacobianPi ==
    /\ jacobian # << >>
    /\ jacobian.pc = "pi"
    /\ jacobian' = [jacobian EXCEPT
                      !.pc = "psi",
                      !.pi = numeric_jacobian(jacobian.funcs, jacobian.values,
                                [j \in 1..Len(jacobian.variables) |-> lead_name(j)])]
    /\ UNCHANGED jacobianRest

(* Line 517: psi, or zeros of width 0 without shocks *)
JacobianPsi ==
    /\ jacobian # << >>
    /\ jacobian.pc = "psi"
    /\ jacobian' = [jacobian EXCEPT
                      !.pc = "done",
                      !.psi = IF Len(jacobian.shocks) > 0
                              THEN numeric_jacobian(jacobian.funcs, jacobian.values,
                                                    jacobian.shocks)
                              ELSE [i \in 1..Len(jacobian.funcs) |-> << >>]]
    /\ UNCHANGED jacobianRest

NextJacobian == JacobianG0 \/ JacobianG1 \/ JacobianPi \/ JacobianPsi

SpecJacobian == InitJacobian /\ [][NextJacobian]_vars

(* C25: G0 is the derivative of the residuals in the current variables, and *)
(* G1, PI and PSI are minus the derivatives in the lagged variables, the    *)
(* lead variables and the shocks                                            *)
C25_SignConvention ==
    (jacobian # << >> /\ jacobian.pc = "done")
    => \A i \in 1..Len(jacobian.funcs) :
          /\ \A j \in 1..Len(jacobian.variables) :
                /\ jacobian.g0[i][j] = jacobian.funcs[i].coef[Current(j)]
                /\ jacobian.g1[i][j] = 0 - jacobian.funcs[i].coef[lag_name(j)]
                /\ jacobian.pi[i][j] = 0 - jacobian.funcs[i].coef[lead_name(j)]
          /\ \A k \in 1..Len(jacobian.shocks) :
                jacobian.psi[i][k] = 0 - jacobian.funcs[i].coef[ShockName(k)]

----------------------------------------------------------------------------
(* The pipeline: build_linear_system writes linear_system.npz, and          *)
(* run_determinacy_irf loads it and hands g0, g1, psi and pi to gensys.     *)
(* The build is modelled by the shapes of its matrices, so the loaded       *)
(* system has the saved shapes and entries of any kind.                      *)

(* Entries of a loaded system: a stable, an unstable and a zero root, and   *)
(* a pi of rank 0, of full rank or of rank 1                                 *)
LoadedPencils == {<<1, 2>>, <<2, 1>>, <<0, 1>>}

LoadedPi(n, k) ==
    { [i \in 1..n |-> [j \in 1..k |-> 0]],
      [i \in 1..n |-> [j \in 1..k |-> IF i = j THEN 1 ELSE 0]],
      [i \in 1..n |-> [j \in 1..k |-> 1]] }

(* The build of a spec whose equations all parse or are skipped as indexed, *)
(* without an allowlist                                                      *)
InitPipeline ==
    /\ now = 0
    /\ IdleAggregate
    /\ IdleHandler
    /\ IdleSolver
    /\ IdleDetIrf
    /\ IdleParamLoad
    /\ IdleContract
    /\ IdleIrf
    /\ IdleFiscal
    /\ IdleOthers
    /\ \E m0 \in 0..MaxEq, nFull \in 1..MaxVars, k \in 0..MaxShocks :
          \E equations \in [1..m0 -> {"ok", "indexed_or_integral"}] :
             build = NewBuild(equations, nFull, None, k)

(* run_determinacy_irf.main, lines 30-39: the saved file is loaded *)
PipelineLoad ==
    /\ build # << >>
    /\ build.pc = "done"
    /\ build.saved # None
    /\ system = << >>
    /\ LET f == Get(build.saved)
           n == Len(f.variables)
           k == Len(f.pi.cols)
       IN /\ n >= 1
          /\ \E d \in [1..n -> LoadedPencils], P \in LoadedPi(n, k) :
                system' = LinearSystem(n, k, d, P)
    /\ UNCHANGED <<backendVars, solution, toolVars>>

(* run_determinacy_irf.main, lines 41-73, on the loaded system *)
PipelineRun ==
    /\ system # << >>
    /\ detIrf = None
    /\ detIrf' = Some(main(TRUE, system,
                           IF Len(Get(build.saved).psi.cols) = 0 THEN 0 ELSE 1))
    /\ UNCHANGED <<backendVars, solverVars, build, paramLoad, contract, irf, fiscal,
                   otherVars>>

NextPipeline == NextBuild \/ PipelineLoad \/ PipelineRun

SpecPipeline == InitPipeline /\ [][NextPipeline]_vars

----------------------------------------------------------------------------
(* routers/policy.py: InMemoryRateLimiter, called from request threads.     *)
(* allow reads time() before it takes the lock; what it does under the lock *)
(* is one step.  The clock ticks in units of 30 seconds.  The floor of      *)
(* max_keys (100 in the code) and the number of calls between two prunings  *)
(* (200 in the code) are scaled down to the size of the model.              *)

MaxCalls == 4       \* calls of allow in a behaviour
MaxThreads == 2     \* request threads
MaxLimit == 2       \* largest limit the limiter is built with
PruneEvery == 2     \* self._calls % PruneEvery == 0 runs _prune
MinMaxKeys == 1     \* self.max_keys = max(MinMaxKeys, max_keys)
WindowSeconds == 2  \* window_seconds=60

ClientKeys == {"10.0.0.1", "10.0.0.2"}
Threads == 1..MaxThreads

Max(a, b) == IF a >= b THEN a ELSE b

(* InMemoryRateLimiter.__init__; _events is kept in insertion order *)
InMemoryRateLimiter(limit, window_seconds, max_keys) ==
    [limit |-> Max(1, limit),
     window_seconds |-> Max(1, window_seconds),
     max_keys |-> Max(MinMaxKeys, max_keys),
     events |-> << >>,
     calls |-> 0]

(* Position of a key in _events, 0 if it has no bucket *)
BucketIndex(events, key) ==
    IF \E i \in 1..Len(events) : events[i].key = key
    THEN CHOOSE i \in 1..Len(events) : events[i].key = key
    ELSE 0

(* sorted(items, key=lambda item: item[1][-1], reverse=True): stable *)
RECURSIVE by_latest(_)
by_latest(events) ==
    IF events = << >> THEN << >>
    ELSE LET latest(i) == events[i].bucket[Len(events[i].bucket)]
             first == CHOOSE i \in 1..Len(events) :
                         /\ \A j \in 1..Len(events) : latest(j) <= latest(i)
                         /\ \A j \in 1..(i - 1) : latest(j) < latest(i)
         IN <<events[first]>>
            \o by_latest(Filter(events, { events[j] : j \in 1..Len(events) }
                                           \ {events[first]}))

(* _prune *)
prune(l, t) ==
    LET stale(i) == \/ l.events[i].bucket = << >>
                    \/ t - l.events[i].bucket[Len(l.events[i].bucket)]
                          >= l.window_seconds
        kept == Filter(l.events, { l.events[i] : i \in { j \in 1..Len(l.events) :
                                                            ~stale(j) } })
    IN IF Len(kept) <= l.max_keys THEN kept
       ELSE SubSeq(by_latest(kept), 1, l.max_keys)

(* while bucket and (now - bucket[0]) >= self.window_seconds: popleft() *)
RECURSIVE drop_stale(_, _, _)
drop_stale(bucket, t, window_seconds) ==
    IF bucket # << >> /\ t - bucket[1] >= window_seconds
    THEN drop_stale(Tail(bucket), t, window_seconds)
    ELSE bucket

(* The body of allow under the lock: the limiter afterwards and the result *)
allow(l, key, t) ==
    LET calls == l.calls + 1
        pruned == IF calls % PruneEvery = 0 THEN prune(l, t) ELSE l.events
        \* self._events[key] of the defaultdict makes a missing bucket
        events == IF BucketIndex(pruned, key) = 0
                  THEN Append(pruned, [key |-> key, bucket |-> << >>])
                  ELSE pruned
        at == BucketIndex(events, key)
        bucket == drop_stale(events[at].bucket, t, l.window_seconds)
    IN IF Len(bucket) >= l.limit
       THEN [limiter |-> [l EXCEPT !.calls = calls,
                                   !.events = [events EXCEPT ![at].bucket = bucket]],
             allowed |-> FALSE,
             retry_after |-> Max(1, l.window_seconds - (t - bucket[1]))]
       ELSE [limiter |-> [l EXCEPT !.calls = calls,
                                   !.events = [events EXCEPT
                                                 ![at].bucket = Append(bucket, t)]],
             allowed |-> TRUE,
             retry_after |-> 0]

InitLimiter ==
    /\ now = 0
    /\ IdleAggregate
    /\ IdleHandler
    /\ IdleSolver
    /\ IdleDetIrf
    /\ IdleBuild
    /\ IdleParamLoad
    /\ IdleContract
    /\ IdleIrf
    /\ IdleFiscal
    /\ IdleApi
    /\ IdleJacobian
    /\ \E limit \in 0..MaxLimit :
          limiter = [obj |-> InMemoryRateLimiter(limit, WindowSeconds, 0),
                     threads |-> [th \in Threads |-> [pc |-> "idle", key |-> "",
                                                      now |-> 0]],
                     started |-> 0,
                     returned |-> << >>]

limiterRest ==
    <<aggVars, handlerVars, solverVars, detIrf, build, paramLoad, contract, irf,
      fiscal, api, jacobian>>

(* Line 49: now = time(), in a thread that then waits for the lock *)
AllowEnter(th, key) ==
    /\ limiter # << >>
    /\ limiter.threads[th].pc = "idle"
    /\ limiter.started < MaxCalls
    /\ limiter' = [limiter EXCEPT
                     !.threads[th] = [pc |-> "waiting", key |-> key, now |-> now],
                     !.started = @ + 1]
    /\ UNCHANGED <<now, limiterRest>>

(* Lines 50-61: the thread holds the lock; what allow returned is kept with *)
(* the time it returned at                                                  *)
AllowLocked(th) ==
    /\ limiter # << >>
    /\ limiter.threads[th].pc = "waiting"
    /\ LET call == limiter.threads[th]
           r == allow(limiter.obj, call.key, call.now)
       IN limiter' = [limiter EXCEPT
                        !.obj = r.limiter,
                        !.threads[th].pc = "idle",
                        !.returned = Append(@, [key |-> call.key,
                                                now |-> call.now,
                                                at |-> now,
                                                allowed |-> r.allowed,
                                                retry_after |-> r.retry_after])]
    /\ UNCHANGED <<now, limiterRest>>

NextLimiter ==
    \/ Tick
    \/ \E th \in Threads, key \in ClientKeys : AllowEnter(th, key)
    \/ \E th \in Threads : AllowLocked(th)

SpecLimiter == InitLimiter /\ [][NextLimiter]_vars

(* The calls for key that returned True at a time in from..to *)
Granted(key, from, to) ==
    { i \in 1..Len(limiter.returned) :
         /\ limiter.returned[i].key = key
         /\ limiter.returned[i].allowed
         /\ limiter.returned[i].at \in from..to }

BucketOf(l, key) ==
    IF BucketIndex(l.events, key) = 0 THEN << >>
    ELSE l.events[BucketIndex(l.events, key)].bucket

(* C30: for every key allow returns True at most `limit` times in any span  *)
(* of time shorter than window_seconds, and a call that is denied returns a *)
(* retry-after of at least 1 and adds no event to the bucket of its key     *)
C30_AtMostLimitPerWindow ==
    /\ [](limiter # << >>
           => \A key \in ClientKeys, t \in 0..MaxClock :
                 Cardinality(Granted(key, t, t + limiter.obj.window_seconds - 1))
                   <= limiter.obj.limit)
    /\ [][ \A th \in Threads :
             (AllowLocked(th) /\ ~limiter'.returned[Len(limiter'.returned)].allowed)
             => /\ limiter'.returned[Len(limiter'.returned)].retry_after >= 1
                /\ Len(BucketOf(limiter'.obj, limiter.threads[th].key))
                     <= Len(BucketOf(limiter.obj, limiter.threads[th].key))
         ]_vars

====
